---- MODULE Spec2Model ----
(***************************************************************************)
(* The Runner of pkg/runner (src/unnamed/part_002): Chat / Run, start,     *)
(* resume, call, getContext and subCalls, as a machine of call frames.     *)
(* A frame is one invocation of call, subCallResume or of the start/resume *)
(* pair that Chat drives for the entry tool.  The LLM engine, the          *)
(* authorizer and the user are the environment: their answers are drawn    *)
(* from small sets.                                                        *)
(***************************************************************************)
EXTENDS Integers, Sequences, FiniteSets, TLC

VARIABLES
    cfg,      \* Runner options and the program's entry tool (fixed by New / the caller)
    chat,     \* the Chat (or Run) invocation in progress and its last response
    saved,    \* the ChatState the caller holds from the previous response
    frames,   \* active call frames, by path from the entry frame
    events,   \* history: the engine and authorizer invocations made so far
    nchats,   \* number of Chat / Run invocations so far
    creds,    \* credMutex, the credential store and the history of handleCredentials
    binder    \* a call of getContextInput on its own: its arguments and what it returned

vars == <<cfg, chat, saved, frames, events, nchats, creds, binder>>

(***************************************************************************)
(* Bounds of the model.                                                    *)
(***************************************************************************)
\* Chat / Run invocations of one conversation.
MaxChats == 4
\* Completions of one conversation that the LLM may answer with tool calls;
\* its other completions are text.
MaxTurns == 1

(***************************************************************************)
(* Go values.  A pointer is Nil or Some(v); a string is a TLA+ string; a    *)
(* call id is a string of digits, kept as the tuple of its digits so that   *)
(* sort.Strings can be computed on it ("" is the empty tuple).              *)
(***************************************************************************)
Nil == <<>>
Some(v) == <<v>>
IsNil(p) == Len(p) = 0
Deref(p) == p[1]

NoCalls == <<>>
NoID == <<>>

\* engine.Return{Result, Calls, State}
Return(result, calls, est) == [Result |-> result, Calls |-> calls, State |-> est]

\* The zero value State{}.
ZeroState ==
    [ Continuation |-> Nil,
      ContinuationToolID |-> "",
      Result |-> Nil,
      ResumeInput |-> Nil,
      SubCalls |-> <<>>,
      SubCallID |-> NoID,
      InputContexts |-> <<>>,
      InputContextContinuation |-> Nil,
      InputContextContinuationInput |-> "",
      InputContextContinuationResumeInput |-> Nil,
      StartContinuation |-> FALSE ]

\* func (s State) WithResumeInput(input *string) *State
WithResumeInput(s, input) == [s EXCEPT !.ResumeInput = input]

SubCallResult(toolID, callID, st) == [ToolID |-> toolID, CallID |-> callID, State |-> st]

\* Errors: a plain error, the typed *builtin.ErrChatFinish, and a Go panic
\* (a nil dereference), which no frame recovers.
Err(kind, msg) == [kind |-> kind, msg |-> msg]
NoErr == Nil

(***************************************************************************)
(* sort.Strings on call ids: byte-wise lexicographic order.                *)
(***************************************************************************)
RECURSIVE LexLess(_, _)
LexLess(a, b) ==
    IF Len(b) = 0 THEN FALSE
    ELSE IF Len(a) = 0 THEN TRUE
    ELSE IF a[1] # b[1] THEN a[1] < b[1]
    ELSE LexLess(Tail(a), Tail(b))

\* The ids in descending order: the order C1 tells from that of SortIds.
RECURSIVE SortIdsRev(_)
SortIdsRev(S) ==
    IF S = {} THEN <<>>
    ELSE LET m == CHOOSE x \in S : \A y \in S \ {x} : LexLess(y, x)
         IN  <<m>> \o SortIdsRev(S \ {m})

\* ids := maps.Keys(calls); sort.Strings(ids)
RECURSIVE SortIds(_)
SortIds(S) ==
    IF S = {} THEN <<>>
    ELSE LET m == CHOOSE x \in S : \A y \in S \ {x} : LexLess(x, y)
         IN  <<m>> \o SortIds(S \ {m})

(***************************************************************************)
(* The program.  Tools of the ToolSet: Chat flag, IsCommand(), membership   *)
(* of builtin.SafeTools, the context references, and what the tool's engine *)
(* may answer: Calls are the tool calls the LLM can emit (call id ->        *)
(* tool id), Finish marks the built-in that returns ErrChatFinish.          *)
(***************************************************************************)
Tool(isChat, isCommand, safe, finish, context, calls) ==
    [ Chat |-> isChat, Command |-> isCommand, Safe |-> safe, Finish |-> finish,
      Context |-> context, Credentials |-> <<>>, Calls |-> calls ]

\* callCtx.Tool.Credentials: the names of the credential tools a tool declares.
WithCredentials(tool, names) == [tool EXCEPT !.Credentials = names]

id1 == <<1>>
id10 == <<1, 0>>
id2 == <<2>>

ToolSet ==
    [ T   |-> Tool(FALSE, FALSE, FALSE, FALSE, <<>>, (id1 :> "A" @@ id10 :> "K" @@ id2 :> "B")),
      TC  |-> Tool(TRUE,  FALSE, FALSE, FALSE, <<>>, (id1 :> "G" @@ id2 :> "F")),
      TX  |-> Tool(FALSE, FALSE, FALSE, FALSE, <<"P", "Q">>, (id1 :> "A")),
      TY  |-> Tool(TRUE,  FALSE, FALSE, FALSE, <<"Q", "P">>, NoCalls),
      TN  |-> Tool(FALSE, FALSE, FALSE, FALSE, <<"N">>, NoCalls),
      TZ  |-> Tool(FALSE, FALSE, FALSE, FALSE, <<"P">>, (id1 :> "K")),
      TK  |-> Tool(FALSE, FALSE, FALSE, FALSE, <<>>, (id1 :> "K" @@ id2 :> "K")),
      CM  |-> Tool(TRUE,  TRUE,  FALSE, FALSE, <<>>, NoCalls),
      A   |-> Tool(FALSE, FALSE, FALSE, FALSE, <<>>, NoCalls),
      B   |-> Tool(FALSE, TRUE,  FALSE, FALSE, <<>>, NoCalls),
      G   |-> Tool(FALSE, FALSE, FALSE, FALSE, <<>>, (id1 :> "F")),
      K   |-> Tool(TRUE,  FALSE, FALSE, FALSE, <<>>, (id1 :> "F")),
      F   |-> Tool(FALSE, FALSE, TRUE,  TRUE,  <<>>, NoCalls),
      P   |-> Tool(TRUE,  FALSE, FALSE, FALSE, <<>>, (id1 :> "F")),
      Q   |-> Tool(FALSE, FALSE, FALSE, FALSE, <<>>, (id1 :> "F")),
      N   |-> Tool(FALSE, FALSE, FALSE, FALSE, <<"P">>, NoCalls),
      TG  |-> Tool(FALSE, FALSE, FALSE, FALSE, <<>>, (id1 :> "CA" @@ id2 :> "CB")),
      CA  |-> WithCredentials(Tool(FALSE, FALSE, FALSE, FALSE, <<>>, NoCalls),
                              <<"github.com/o", "github.com/g", "local">>),
      CB  |-> WithCredentials(Tool(TRUE,  FALSE, FALSE, FALSE, <<>>, NoCalls),
                              <<"github.com/g", "github.com/n">>),
      TD  |-> WithCredentials(Tool(FALSE, FALSE, FALSE, FALSE, <<>>, NoCalls), <<"nested">>),
      NC  |-> WithCredentials(Tool(FALSE, FALSE, FALSE, FALSE, <<>>, NoCalls), <<"local">>),
      GC  |-> Tool(FALSE, FALSE, FALSE, FALSE, <<>>, NoCalls),
      GN  |-> Tool(FALSE, FALSE, FALSE, FALSE, <<>>, NoCalls),
      LC  |-> Tool(FALSE, FALSE, FALSE, FALSE, <<>>, NoCalls) ]

EntryTools == {"T", "TC", "TX", "TY", "TN", "TZ", "TK", "CM", "TG", "TD"}

\* callCtx.Tool.ToolMapping: the tool a credential name resolves to.
ToolMapping == [n \in {"github.com/g", "github.com/n", "github.com/o", "local", "nested"} |->
                   IF n = "github.com/n" THEN "GN" ELSE IF n = "local" THEN "LC"
                   ELSE IF n = "nested" THEN "NC" ELSE "GC"]
CredentialTools == {"GC", "GN", "LC", "NC"}

\* Program.ToolSet[id].Source.Repo != nil
HasRepo(tool) == tool \in {"GC", "LC"}

\* isGitHubTool: strings.HasPrefix(toolName, "github.com")
IsGitHubTool(name) == name \in {"github.com/g", "github.com/n", "github.com/o"}

\* parseCredentialOverrides(r.credOverrides): name -> env.
CredOverrides == [n \in {"github.com/o"} |-> [k \in {"O"} |-> "1"]]

\* What a credential tool prints, and json.Unmarshal of it into
\* struct{Env map[string]string} (Nil: the text is not JSON).
EnvText == "{env:{K:v}}"
BlankEnvText == "{env:{K:}}"
NotJSONText == "oops"
\* What each credential tool may print.
CredentialTexts ==
    [t \in CredentialTools |->
        IF t = "GC" THEN {EnvText, BlankEnvText}
        ELSE IF t = "LC" THEN {EnvText, NotJSONText}
        ELSE {EnvText}]
ParseEnv(text) ==
    IF text = EnvText THEN Some([k \in {"K"} |-> "v"])
    ELSE IF text = BlankEnvText THEN Some([k \in {"K"} |-> ""])
    ELSE Nil

\* for k, v := range env { env = append(env, fmt.Sprintf("%s=%s", k, v)) },
\* for the environments of one key that occur here.
EnvEntries(env) == IF DOMAIN env = {} THEN <<>>
                   ELSE LET k == CHOOSE x \in DOMAIN env : TRUE IN <<k \o "=" \o env[k]>>

IsEmptyEnv(env) == \A k \in DOMAIN env : env[k] = ""

\* callCtx.Program.GetContextToolRefs(callCtx.Tool.ID): references with an empty Arg.
GetContextToolRefs(tool) == ToolSet[tool].Context

\* The input the LLM gives a tool call, and the texts it answers with.
CallInput(tool) == "in-" \o tool
ResultText(tool, n) == tool \o "#" \o ToString(n)
UserInput(k) == "u" \o ToString(k)
FirstInput == "i0"
AuthMessages == {"no"}

Restrict(f, S) == [x \in S |-> f[x]]

\* engine.Call{ToolID, Input} for the chosen ids of a tool's calls.
CallsOf(tool, ids) == [id \in ids |-> [ToolID |-> ToolSet[tool].Calls[id], Input |-> CallInput(ToolSet[tool].Calls[id])]]

(***************************************************************************)
(* The engine, as the Runner sees it: Start and Continue answer with a      *)
(* Return that carries a Result or a non-empty Calls map, or with an error. *)
(* The engine state of a Return records the input of the conversation       *)
(* (Return.State.Input) and the number of completions so far.               *)
(***************************************************************************)
EngineState(tool, input, n, c) == [Input |-> input, Tool |-> tool, n |-> n, c |-> c]

\* The answers to the n-th completion of a conversation of which c completions
\* asked for tool calls.
EngineAnswers(tool, input, n, c) ==
    LET tl == ToolSet[tool]
        text == {[ret |-> Some(Return(Some(t), NoCalls, Some(EngineState(tool, input, n, c)))),
                  err |-> NoErr] :
                    t \in IF tool \in CredentialTools THEN CredentialTexts[tool] ELSE {ResultText(tool, n)}}
        calls == IF c >= MaxTurns THEN {}
                 ELSE {[ret |-> Some(Return(Nil, CallsOf(tool, ids), Some(EngineState(tool, input, n, c + 1)))),
                        err |-> NoErr] :
                          ids \in SUBSET (DOMAIN tl.Calls) \ {{}}}
        fail == {[ret |-> Nil, err |-> Some(Err("error", "engine"))]}
    IN  IF tl.Finish
        THEN {[ret |-> Nil, err |-> Some(Err("chatfinish", input))]}
        ELSE text \cup calls \cup fail

\* e.Start(callCtx, input)
EngineStartAnswers(tool, input) == EngineAnswers(tool, input, 1, 0)

\* e.Continue(callCtx, state.Continuation.State, engineResults...)
EngineContinueAnswers(tool, est) ==
    IF IsNil(est) THEN EngineAnswers(tool, "", 1, 0)
    ELSE EngineAnswers(tool, Deref(est).Input, Deref(est).n + 1, Deref(est).c)


(***************************************************************************)
(* getContextInput (lines 235-312), the context-input binder.  Strings are  *)
(* sequences of characters, a JSON object is the function of its members,  *)
(* a Go value of type any is Nil or Some of a string.                      *)
(***************************************************************************)
MaxFields == 3

Space == " "
Dollar == <<"$">>
And == <<"a", "n", "d">>
As == <<"a", "s">>
\* The tokens an Arg is made of.
Tokens == {And, As, <<"v">>, <<"$", "n">>, <<"$", "{", "n", "}">>, <<"$", "c">>, <<"n">>, <<"N">>}
\* The property names of the target tools' Arguments.
PropertySets == {{}, {<<"n">>}, {<<"N">>}, {<<"n">>, <<"c">>}, {<<"n">>, <<"N">>}}
\* Tool.Arguments: nil for a tool that declares no arguments.
ArgumentsSet == {Nil} \cup {Some(ps) : ps \in PropertySets}
\* The parent's input: a text that is no JSON object, or a JSON object.
PlainInput == [object |-> FALSE, members |-> <<>>]
ObjectInput(members) == [object |-> TRUE, members |-> members]
ParentInputs ==
    {PlainInput, ObjectInput(<<"n">> :> <<"1">>), ObjectInput(<<"n">> :> <<"1">> @@ <<"c">> :> <<"2">>)}

RECURSIVE JoinFields(_)
\* An Arg: the tokens with a space between them.
JoinFields(tokens) ==
    IF Len(tokens) = 0 THEN <<>>
    ELSE IF Len(tokens) = 1 THEN tokens[1]
    ELSE tokens[1] \o <<Space>> \o JoinFields(Tail(tokens))
RECURSIVE TokenSeqs(_)
TokenSeqs(n) ==
    IF n = 0 THEN {<<>>}
    ELSE LET shorter == TokenSeqs(n - 1)
         IN  shorter \cup {Append(ts, t) : ts \in {x \in shorter : Len(x) = n - 1}, t \in Tokens}
Args == {JoinFields(ts) : ts \in TokenSeqs(MaxFields)}

\* strings.ToLower, strings.HasPrefix, strings.TrimPrefix, strings.TrimSuffix.
ToLower(str) == [j \in 1..Len(str) |-> IF str[j] = "N" THEN "n" ELSE IF str[j] = "C" THEN "c" ELSE str[j]]
HasPrefix(str, prefix) == Len(prefix) <= Len(str) /\ SubSeq(str, 1, Len(prefix)) = prefix
TrimPrefix(str, prefix) == IF HasPrefix(str, prefix) THEN SubSeq(str, Len(prefix) + 1, Len(str)) ELSE str
TrimSuffix(str, suffix) ==
    IF Len(suffix) <= Len(str) /\ SubSeq(str, Len(str) - Len(suffix) + 1, Len(str)) = suffix
    THEN SubSeq(str, 1, Len(str) - Len(suffix))
    ELSE str

RECURSIVE Fields(_)
\* strings.Fields: the maximal runs of characters other than white space.
Fields(str) ==
    IF Len(str) = 0 THEN <<>>
    ELSE IF str[1] = Space THEN Fields(Tail(str))
    ELSE LET ends == {j \in 1..Len(str) : str[j] = Space}
             n == IF ends = {} THEN Len(str) ELSE (CHOOSE j \in ends : \A j2 \in ends : j <= j2) - 1
         IN  <<SubSeq(str, 1, n)>> \o Fields(SubSeq(str, n + 1, Len(str)))

\* Line 254: json.Unmarshal into a map; the error is dropped and the map stays empty.
Unmarshal(input) == IF input.object THEN input.members ELSE <<>>
\* inputMap[key], nil for a missing key.
MapValue(inputMap, key) == IF key \in DOMAIN inputMap THEN Some(inputMap[key]) ELSE Nil

\* Lines 247-249: targetKeys, from lower case to the property's name.  Go
\* walks a map in no fixed order, so of two properties that differ in case
\* only either one can be the one kept.
TargetKeys(properties) ==
    {tk \in [{ToLower(k) : k \in properties} -> properties] : \A l \in DOMAIN tk : ToLower(tk[l]) = l}

BinderOk(outputMap) == [kind |-> "ok", empty |-> DOMAIN outputMap = {}, members |-> outputMap, msg |-> ""]
BinderError(msg) == [kind |-> "error", empty |-> TRUE, members |-> <<>>, msg |-> msg]
BinderPanic == [kind |-> "panic", empty |-> TRUE, members |-> <<>>, msg |-> "index out of range"]

\* Lines 273-280: the value of a field.
FieldValue(field, inputMap) ==
    IF HasPrefix(field, Dollar)
    THEN MapValue(inputMap, TrimSuffix(TrimPrefix(TrimPrefix(field, Dollar), <<"{">>), <<"}">>))
    ELSE Some(field)

RECURSIVE BindFields(_, _, _, _, _)
\* Lines 258-304: the loop over the fields (i counts from 1).
BindFields(fields, i, targetKeys, inputMap, outputMap) ==
    IF i > Len(fields) THEN BinderOk(outputMap)
    ELSE IF fields[i] = And THEN BindFields(fields, i + 1, targetKeys, inputMap, outputMap)
    ELSE IF fields[i] = As THEN BindFields(fields, i + 2, targetKeys, inputMap, outputMap)
    ELSE LET val == FieldValue(fields[i], inputMap)
             aliased == Len(fields) > i /\ fields[i + 1] = As
         IN  IF aliased /\ Len(fields) < i + 2 THEN BinderPanic
             ELSE IF DOMAIN targetKeys = {} THEN BinderError("no defined args")
             ELSE IF ~aliased /\ Cardinality(DOMAIN targetKeys) # 1 THEN BinderError("does not have one args")
             ELSE LET keyName == IF aliased THEN ToLower(fields[i + 2])
                                 ELSE CHOOSE k \in DOMAIN targetKeys : TRUE
                  IN  IF ToLower(keyName) \in DOMAIN targetKeys
                      THEN BindFields(fields, i + 1, targetKeys, inputMap,
                                      (targetKeys[ToLower(keyName)] :> val) @@ outputMap)
                      ELSE BinderError("does not args")

\* Lines 235-312 for a given order of the walk of line 246.
BindContextInput(arguments, targetKeys, arg, input) ==
    IF Len(arg) = 0 THEN BinderOk(<<>>)
    ELSE IF IsNil(arguments) THEN BinderOk(<<>>)
    ELSE BindFields(Fields(arg), 1, targetKeys, Unmarshal(input), <<>>)

NoBinder == [pc |-> "idle", arguments |-> Nil, arg |-> <<>>, input |-> PlainInput, result |-> BinderOk(<<>>)]

(***************************************************************************)
(* Call frames.  A path names a frame by the sub-calls that lead to it from *)
(* the entry frame: a context reference (by index) or a tool call (by call  *)
(* id).                                                                    *)
(***************************************************************************)
Root == <<>>
CtxSel(i) == [kind |-> "ctx", id |-> <<i>>]
CredSel(i) == [kind |-> "cred", id |-> <<i>>]
SubSel(id) == [kind |-> "sub", id |-> id]
Child(p, sel) == Append(p, sel)

NoRet == [state |-> Nil, err |-> NoErr]

(***************************************************************************)
(* streamProgress (lines 637-675): the progress channel of one start or    *)
(* resume, its consumer goroutine and the close function.  closed counts   *)
(* close(progress), calls the calls of the close function.                 *)
(***************************************************************************)
NoPump == [made |-> FALSE, closed |-> 0, calls |-> 0, once |-> FALSE, consumer |-> FALSE]

\* Lines 638-666: the channel is made and the consumer started.
StreamProgress(f) ==
    [f EXCEPT !.progress = [made |-> TRUE, closed |-> 0, calls |-> 0, once |-> FALSE, consumer |-> TRUE]]

\* A close function without the latch: C26 tells it from ProgressClose.
ProgressCloseUnguarded(f) ==
    [f EXCEPT !.progress = [@ EXCEPT !.calls = @ + 1, !.closed = @ + 1, !.once = TRUE, !.consumer = FALSE]]

\* Lines 668-674: once.Do closes the channel and waits for the consumer,
\* whose range loop ends with the channel.
ProgressClose(f) ==
    IF f.progress.once
    THEN [f EXCEPT !.progress = [@ EXCEPT !.calls = @ + 1]]
    ELSE [f EXCEPT !.progress = [@ EXCEPT !.calls = @ + 1, !.closed = @ + 1, !.once = TRUE, !.consumer = FALSE]]

\* defer progressClose() (lines 388, 524), when the invocation got that far.
DeferredClose(f) == IF f.progress.made THEN ProgressClose(f) ELSE f

\* A frame at the entry of call (fn = "call": start, then resume) or of
\* subCallResume (fn = "resume").
NewFrame(tool, fn, input, st) ==
    [ tool |-> tool,
      fn |-> fn,
      pc |-> IF fn = "resume" THEN "resume" ELSE "start",
      input |-> input,            \* start's input
      state |-> st,               \* start's / resume's state
      gcMode |-> "",              \* getContext called from "start" or "resume"
      gcInput |-> "",             \* getContext: input
      newState |-> Nil,           \* getContext: newState
      result |-> <<>>,            \* getContext: result
      i |-> 1,                    \* getContext: index into toolRefs
      inputContext |-> <<>>,      \* callCtx.InputContext
      callResults |-> <<>>,       \* subCalls / resume: callResults
      engineResults |-> <<>>,     \* resume: engineResults
      ids |-> <<>>,               \* subCalls: ids not yet handed to the dispatcher
      started |-> <<>>,           \* subCalls: ids handed to the dispatcher, in order
      running |-> {},             \* dispatcher: tasks running
      derr |-> NoErr,             \* dispatcher: first error
      cancelled |-> FALSE,        \* dispatcher: the context of its tasks is cancelled
      progress |-> NoPump,        \* start / resume: progress, progressClose
      k |-> 0,                    \* subCalls: index of the resumed entry of state.SubCalls
      env0 |-> <<>>,              \* the env the frame was called with
      env |-> <<>>,               \* start / resume: env
      hcMode |-> "",              \* handleCredentials called from "start" or "resume"
      ci |-> 1,                   \* handleCredentials: index into Tool.Credentials
      ret |-> NoRet ]

\* The env argument of call / resume.
CalledWith(f, env) == [f EXCEPT !.env0 = env, !.env = env]

Returned(f, st, err) == [DeferredClose(f) EXCEPT !.pc = "done", !.ret = [state |-> st, err |-> err]]
Panicked(f) == [DeferredClose(f) EXCEPT !.pc = "panic"]

IllegalState(msg) == Some(Err("illegal", msg))

(***************************************************************************)
(* getContext (lines 314-373)                                              *)
(***************************************************************************)
\* Lines 320-332: newState and input on entry.
EnterGetContext(f, mode, st, input) ==
    LET resumed == ~IsNil(st) /\ ~IsNil(Deref(st).InputContextContinuation)
        ns == IF IsNil(st) THEN Nil
              ELSE IF resumed
              THEN Some([Deref(st) EXCEPT
                            !.InputContexts = <<>>,
                            !.InputContextContinuation = Nil,
                            !.InputContextContinuationInput = "",
                            !.ResumeInput = Deref(st).InputContextContinuationResumeInput])
              ELSE st
    IN  [f EXCEPT !.pc = "gc", !.gcMode = mode, !.state = st, !.newState = ns,
                  !.gcInput = IF resumed THEN Deref(st).InputContextContinuationInput ELSE input,
                  !.result = <<>>, !.i = 1]

\* getContextInput for a reference with an empty Arg (line 236).
GetContextInput(tool, input) == ""

\* A getContext that reuses nothing: C23 tells it from ReuseInputContexts.
NoReuse(f) == f

\* Lines 334-338: results of completed context tools are taken from state.InputContexts.
RECURSIVE ReuseInputContexts(_)
ReuseInputContexts(f) ==
    IF /\ f.i <= Len(GetContextToolRefs(f.tool))
       /\ ~IsNil(f.state)
       /\ f.i <= Len(Deref(f.state).InputContexts)
    THEN ReuseInputContexts([f EXCEPT !.result = Append(f.result, Deref(f.state).InputContexts[f.i]),
                                      !.i = f.i + 1])
    ELSE f

\* Lines 354-365: the state getContext returns when a context tool suspended.
SuspendedContext(f, content) ==
    LET base == IF IsNil(f.newState) THEN ZeroState ELSE Deref(f.newState)
    IN  [base EXCEPT
            !.InputContexts = f.result,
            !.InputContextContinuation = Some(content),
            !.InputContextContinuationInput = f.gcInput,
            !.InputContextContinuationResumeInput =
                IF IsNil(f.state) THEN base.InputContextContinuationResumeInput
                ELSE Deref(f.state).ResumeInput]

\* Whether line 346 resumes the stored continuation for the context tool at hand.
ContextResumes(f) == ~IsNil(f.state) /\ ~IsNil(Deref(f.state).InputContextContinuation)

(***************************************************************************)
(* start (lines 386-452) and call (lines 375-384)                          *)
(***************************************************************************)
NeedsAuthorization(tool) == ToolSet[tool].Command /\ ~ToolSet[tool].Safe

AuthorizationError(msg) == "[AUTHORIZATION ERROR]: " \o msg

\* call, lines 380-383 (Chat, lines 169-174): a state start returned goes to
\* resume unless it has StartContinuation set.
AfterStart(f, st) ==
    IF st.StartContinuation
    THEN Returned(f, Some(st), NoErr)
    ELSE [DeferredClose(f) EXCEPT !.pc = "resume", !.state = Some(st)]

\* getContext returned to start (lines 409-427) or to resume (lines 614-617).
AfterGetContext(f) ==
    IF f.gcMode = "start"
    THEN [f EXCEPT !.inputContext = f.result,
                   !.pc = IF NeedsAuthorization(f.tool) THEN "auth" ELSE "estart"]
    ELSE [f EXCEPT !.inputContext = f.result, !.state = f.newState, !.pc = "econt"]

\* A suspended context tool that start does not mark: C5 tells it from
\* AfterContextSuspended.
AfterContextSuspendedUnmarked(f, ns) == Returned(f, Some(ns), NoErr)

\* getContext returned a state whose context tool suspended.
AfterContextSuspended(f, ns) ==
    IF f.gcMode = "start"
    THEN AfterStart(f, [ns EXCEPT !.StartContinuation = TRUE])
    ELSE Returned(f, Some(ns), NoErr)

(***************************************************************************)
(* resume (lines 514-635)                                                  *)
(***************************************************************************)
IsTerminal(st) ==
    /\ ~IsNil(Deref(st.Continuation).Result)
    /\ DOMAIN Deref(st.Continuation).Calls = {}
    /\ st.SubCallID = NoID
    /\ IsNil(st.ResumeInput)

\* A terminal state collapsed to its Result for every tool: C7 tells it from
\* TerminalState.
TerminalStateResultOnly(tool, st) == [ZeroState EXCEPT !.Result = Deref(st.Continuation).Result]

\* Lines 543-551.
TerminalState(tool, st) ==
    IF ToolSet[tool].Chat
    THEN [ZeroState EXCEPT !.Continuation = st.Continuation, !.ContinuationToolID = tool]
    ELSE [ZeroState EXCEPT !.Result = Deref(st.Continuation).Result]

\* A ChatFinish caught by every frame: C9 tells it from AfterSubCallsError.
AfterSubCallsErrorCaught(f, err) ==
    IF Deref(err).kind = "chatfinish"
    THEN Returned(f, Some([ZeroState EXCEPT !.Result = Some(Deref(err).msg)]), NoErr)
    ELSE Returned(f, Nil, err)

\* Lines 567-573: the error subCalls returned.
AfterSubCallsError(f, err) ==
    IF Deref(err).kind = "chatfinish" /\ ToolSet[f.tool].Chat
    THEN Returned(f, Some([ZeroState EXCEPT !.Result = Some(Deref(err).msg)]), NoErr)
    ELSE Returned(f, Nil, err)

\* Index of the first call result that is not a completed one, 0 if none.
FirstOpen(callResults) ==
    LET open == {j \in 1..Len(callResults) :
                    \/ ~IsNil(callResults[j].State.Continuation)
                    \/ IsNil(callResults[j].State.Result)}
    IN  IF open = {} THEN 0 ELSE CHOOSE j \in open : \A j2 \in open : j <= j2

EngineCallResult(cr) == [ToolID |-> cr.ToolID, CallID |-> cr.CallID, Result |-> Deref(cr.State.Result), User |-> ""]
UserCallResult(u) == [ToolID |-> "", CallID |-> NoID, Result |-> "", User |-> u]

ContentInput(st) ==
    IF ~IsNil(st.Continuation) /\ ~IsNil(Deref(st.Continuation).State)
    THEN Deref(Deref(st.Continuation).State).Input
    ELSE ""

\* Lines 575-617: subCalls returned (state, callResults).
AfterSubCalls(f, st, callResults) ==
    LET j == FirstOpen(callResults)
    IN  IF j = 0
        THEN EnterGetContext([f EXCEPT !.callResults = callResults,
                                       !.engineResults = [x \in 1..Len(callResults) |-> EngineCallResult(callResults[x])]],
                             "resume", Some(st), ContentInput(st))
        ELSE IF IsNil(callResults[j].State.Continuation)
        THEN Panicked(f)
        ELSE Returned(f, Some([ZeroState EXCEPT !.Continuation = st.Continuation,
                                                !.SubCalls = callResults,
                                                !.SubCallID = callResults[j].CallID]), NoErr)

\* Lines 726-745: the entries of state.SubCalls whose CallID is state.SubCallID.
Matching(st) == {j \in 1..Len(st.SubCalls) : st.SubCalls[j].CallID = st.SubCallID}

\* The head of the roster resumed whatever the SubCallID: C21 tells it from
\* ResumedEntry.
FirstEntry(st) == 1

\* Lines 727-731: the entry that subCallResume is called for.
ResumedEntry(st) == CHOOSE j \in Matching(st) : \A j2 \in Matching(st) : j <= j2

(***************************************************************************)
(* The history of what the Runner asked of its collaborators.              *)
(***************************************************************************)
\* An event names the frame it belongs to by its path and by the number of
\* returns seen there before it (inv: frames that follow one another at one path
\* are told apart), and likewise its caller (pinv).  Events are numbered per
\* path (seq): the order of the events of one frame is kept, the interleaving
\* of concurrent frames is not.
Parent(p) == SubSeq(p, 1, Len(p) - 1)
Invocation(p) == Cardinality({e \in events : e.op = "Return" /\ e.path = p})

Event(op, p, tool, input, ictx, est, calls, results, accept, msg, st, err) ==
    [ op |-> op, chat |-> nchats, path |-> p,
      inv |-> Invocation(p),
      pinv |-> IF p = Root THEN 0 ELSE Invocation(Parent(p)),
      seq |-> Cardinality({e \in events : e.path = p}),
      tool |-> tool, input |-> input, ictx |-> ictx, est |-> est, calls |-> calls,
      results |-> results, accept |-> accept, msg |-> msg, state |-> st, err |-> err ]

\* r.auth(callCtx, input) answered a.
AuthEvent(p, f, a) == Event("Auth", p, f.tool, f.input, <<>>, Nil, {}, <<>>, a.accept, a.msg, Nil, a.err)
\* e.Start(callCtx, input), with callCtx.InputContext.
StartEvent(p, f) == Event("Start", p, f.tool, f.input, f.inputContext, Nil, {}, <<>>, TRUE, "", Nil, NoErr)
\* e.Continue(callCtx, est, results...), in answer to the tool calls `calls`.
ContinueEvent(p, f, est, calls, results) ==
    Event("Continue", p, f.tool, "", f.inputContext, est, calls, results, TRUE, "", Nil, NoErr)
\* monitor.Event: callStart with the input (start, lines 390-395) and
\* callFinish with the result (resume, lines 537-542).
CallStartEvent(p, f) == Event("CallStart", p, f.tool, f.input, <<>>, Nil, {}, <<>>, TRUE, "", Nil, NoErr)
CallFinishEvent(p, f, content) == Event("CallFinish", p, f.tool, content, <<>>, Nil, {}, <<>>, TRUE, "", Nil, NoErr)
\* The frame at p returned (st, err) to its caller.
ReturnEvent(p, f) == Event("Return", p, f.tool, f.input, <<>>, Nil, {}, <<>>, TRUE, "", f.ret.state, f.ret.err)

(***************************************************************************)
(* State.ContinuationContent / ContinuationContentToolID (lines 475-507):   *)
(* Nil stands for the "illegal state" error.                               *)
(***************************************************************************)
RECURSIVE ContinuationContent(_)
ContinuationContent(s) ==
    IF ~IsNil(s.Continuation) /\ ~IsNil(Deref(s.Continuation).Result)
    THEN Some(Deref(Deref(s.Continuation).Result))
    ELSE IF ~IsNil(s.InputContextContinuation)
    THEN ContinuationContent(Deref(s.InputContextContinuation))
    ELSE IF Matching(s) # {}
    THEN ContinuationContent(s.SubCalls[CHOOSE j \in Matching(s) : \A j2 \in Matching(s) : j <= j2].State)
    ELSE Nil

RECURSIVE ContinuationContentToolID(_)
ContinuationContentToolID(s) ==
    IF ~IsNil(s.Continuation) /\ ~IsNil(Deref(s.Continuation).Result)
    THEN Some(s.ContinuationToolID)
    ELSE IF ~IsNil(s.InputContextContinuation)
    THEN ContinuationContentToolID(Deref(s.InputContextContinuation))
    ELSE IF Matching(s) # {}
    THEN ContinuationContentToolID(s.SubCalls[CHOOSE j \in Matching(s) : \A j2 \in Matching(s) : j <= j2].State)
    ELSE Nil

\* getContext runs on to its next sub-call or to its return (lines 334-372).
Advance(f) ==
    IF f.pc # "gc" THEN f
    ELSE LET g == ReuseInputContexts(f)
         IN  IF g.i > Len(GetContextToolRefs(g.tool)) THEN AfterGetContext(g) ELSE g

NoFrames == [p \in {} |-> NoRet]

\* r.credMutex (the frame that holds it), the credential store of r.credCtx
\* (name -> env) and the record of what handleCredentials did.
NoCredentials == [mutex |-> Nil, store |-> [n \in {} |-> <<>>], log |-> <<>>]

\* A step of frame p ends with it as f2, the frames of drop gone (they returned)
\* and the frames of add entered.  A panic ends the process.
Commit(p, f2, drop, add) ==
    IF f2.pc = "panic"
    THEN /\ frames' = NoFrames
         /\ chat' = [chat EXCEPT !.pc = "crashed"]
    ELSE /\ frames' = [q \in (DOMAIN frames \ drop) \cup DOMAIN add |->
                          IF q = p THEN f2 ELSE IF q \in DOMAIN add THEN add[q] ELSE frames[q]]
         /\ UNCHANGED chat

At(p, pc) == p \in DOMAIN frames /\ frames[p].pc = pc

(***************************************************************************)
(* handleCredentials (lines 785-893), called by start (397-403) and by      *)
(* resume (526-532) for a tool that declares credentials.  The store is     *)
(* taken to answer without error.                                          *)
(***************************************************************************)
HasCredentials(tool) == Len(ToolSet[tool].Credentials) > 0

\* start goes on to getContext (line 409), resume to its loop (line 534).
AfterHandleCredentials(f) ==
    IF f.hcMode = "start"
    THEN Advance(EnterGetContext(f, "start", f.state, f.input))
    ELSE [f EXCEPT !.pc = "loop"]

\* A mutex that is never busy: C14 tells it from CanLock.
AlwaysLock(mutex) == TRUE

\* r.credMutex.Lock() returns (line 787).
CanLock(mutex) == IsNil(mutex)

\* An override map that is never consulted: C17 tells it from IsOverridden.
NeverOverridden(name) == FALSE

\* Line 812: override, exists := credOverrides[credToolName]
IsOverridden(name) == name \in DOMAIN CredOverrides

\* A store that never finds anything: C15 tells it from StoreHit.
StoreMiss(store, name) == FALSE

\* Lines 826-831: the store is asked for GitHub names only; exists.
StoreHit(store, name) == IsGitHubTool(name) /\ name \in DOMAIN store

\* A credential stored whatever its tool's source: C16 tells it from ShouldStore.
ShouldStoreAny(name, tool, env) == ~IsEmptyEnv(env)

\* Lines 872-877: store.Add is reached.
ShouldStore(name, tool, env) == IsGitHubTool(name) /\ HasRepo(tool) /\ ~IsEmptyEnv(env)

\* One entry of the record of handleCredentials.
CredLog(op, p, name, env, before, after) ==
    [op |-> op, path |-> p, inv |-> Invocation(p), chat |-> nchats, tool |-> frames[p].tool, name |-> name,
     env |-> env, before |-> before, after |-> after]
Logged(c, entry) == [c EXCEPT !.log = Append(c.log, entry)]
NoEnv == [k \in {} |-> ""]

\* Lines 888-890 (and 813-815): the entries of env are appended to the working env.
AppendEnv(f, env) == [f EXCEPT !.env = f.env \o EnvEntries(env), !.ci = f.ci + 1]

\* Line 788: the deferred r.credMutex.Unlock().
Unlocked(c, p) == Logged([c EXCEPT !.mutex = Nil], CredLog("Unlock", p, "", NoEnv, <<>>, <<>>))

\* The loop over Tool.Credentials (lines 810-891) from index f.ci up to the
\* next credential tool to run, or to the return of handleCredentials.
RECURSIVE HandleCredentialsLoop(_, _, _)
HandleCredentialsLoop(p, f, c) ==
    LET names == ToolSet[f.tool].Credentials
        name == names[f.ci]
    IN  IF f.ci > Len(names)
        THEN [f |-> AfterHandleCredentials(f), c |-> Unlocked(c, p)]
        ELSE IF IsOverridden(name)
        THEN HandleCredentialsLoop(p, AppendEnv(f, CredOverrides[name]),
                 Logged(c, CredLog("Override", p, name, CredOverrides[name], f.env,
                                   AppendEnv(f, CredOverrides[name]).env)))
        ELSE IF StoreHit(c.store, name)
        THEN HandleCredentialsLoop(p, AppendEnv(f, c.store[name]),
                 Logged(c, CredLog("Hit", p, name, c.store[name], f.env, AppendEnv(f, c.store[name]).env)))
        ELSE IF name \notin DOMAIN ToolMapping
        THEN [f |-> Returned(f, Nil, Some(Err("error", "failed to find ID for tool"))), c |-> Unlocked(c, p)]
        ELSE [f |-> [f EXCEPT !.pc = "hc_wait"],
              c |-> Logged(c, CredLog("Run", p, name, NoEnv, f.env, f.env))]

\* The frame of the credential tool that a frame in handleCredentials runs
\* (lines 841-846): r.call(subCtx, monitor, env, "").
CredentialFrames(p, f) ==
    IF f.pc = "hc_wait"
    THEN Child(p, CredSel(f.ci)) :>
             CalledWith(NewFrame(ToolMapping[ToolSet[f.tool].Credentials[f.ci]], "call", "", Nil), f.env)
    ELSE NoFrames

\* Lines 786-846: the mutex is taken and the credentials are resolved up to
\* the first credential tool that has to run.
HandleCredentials(p) ==
    /\ At(p, "hc")
    /\ CanLock(creds.mutex)
    /\ LET f == frames[p]
           r == HandleCredentialsLoop(p, [f EXCEPT !.ci = 1],
                    Logged([creds EXCEPT !.mutex = Some(p)], CredLog("Lock", p, "", NoEnv, <<>>, <<>>)))
       IN  /\ Commit(p, r.f, {}, CredentialFrames(p, r.f))
           /\ creds' = r.c
    /\ UNCHANGED <<cfg, binder, saved, events, nchats>>

\* Lines 847-890, what becomes of the result of the credential tool.
CredentialResult(p, f, name, tool, ret, c) ==
    IF ~IsNil(ret.err)
    THEN [f |-> Returned(f, Nil, Some(Err(Deref(ret.err).kind, "failed to run credential tool: " \o Deref(ret.err).msg))),
          c |-> Unlocked(c, p)]
    ELSE IF IsNil(Deref(ret.state).Result)
    THEN [f |-> Returned(f, Nil, IllegalState("credential tool can not result in a continuation")),
          c |-> Unlocked(c, p)]
    ELSE IF IsNil(ParseEnv(Deref(Deref(ret.state).Result)))
    THEN [f |-> Returned(f, Nil, Some(Err("error", "failed to unmarshal credential tool response"))),
          c |-> Unlocked(c, p)]
    ELSE LET env == Deref(ParseEnv(Deref(Deref(ret.state).Result)))
             c1 == Logged(c, CredLog("Ran", p, name, env, f.env, f.env))
             c2 == IF ShouldStore(name, tool, env)
                   THEN Logged([c1 EXCEPT !.store = (name :> env) @@ c1.store],
                               CredLog("Add", p, name, env, f.env, f.env))
                   ELSE c1
             c3 == Logged(c2, CredLog("Append", p, name, env, f.env, AppendEnv(f, env).env))
         IN  HandleCredentialsLoop(p, AppendEnv(f, env), c3)

\* Lines 847-893: the credential tool returned.
HandleCredentialsReturn(p) ==
    /\ At(p, "hc_wait")
    /\ LET f == frames[p]
           cp == Child(p, CredSel(f.ci))
           name == ToolSet[f.tool].Credentials[f.ci]
       IN  /\ At(cp, "done")
           /\ LET r == CredentialResult(p, f, name, frames[cp].tool, frames[cp].ret, creds)
              IN  /\ Commit(p, r.f, {cp}, CredentialFrames(p, r.f))
                  /\ creds' = r.c
           /\ events' = events \cup {ReturnEvent(cp, frames[cp])}
    /\ UNCHANGED <<cfg, binder, saved, nchats>>

(***************************************************************************)
(* Actions of a frame.                                                     *)
(***************************************************************************)
\* start, lines 386-409: callStart, then context resolution begins.
StartBegin(p) ==
    /\ At(p, "start")
    /\ LET f == StreamProgress(frames[p])
       IN  Commit(p, IF HasCredentials(f.tool)
                     THEN [f EXCEPT !.pc = "hc", !.hcMode = "start"]
                     ELSE AfterHandleCredentials([f EXCEPT !.hcMode = "start"]), {}, NoFrames)
    /\ events' = events \cup {CallStartEvent(p, frames[p])}
    /\ UNCHANGED <<creds, cfg, binder, saved, nchats>>

\* getContext, lines 340-350: the next context tool is called, or the stored
\* continuation is resumed.
GetContextCall(p) ==
    /\ At(p, "gc")
    /\ LET f == frames[p]
           ref == GetContextToolRefs(f.tool)[f.i]
           c == IF ContextResumes(f)
                THEN NewFrame(ref, "resume", "",
                              Some(WithResumeInput(Deref(Deref(f.state).InputContextContinuation),
                                                   Deref(f.state).ResumeInput)))
                ELSE NewFrame(ref, "call", GetContextInput(ref, f.gcInput), Nil)
       IN  Commit(p, [f EXCEPT !.pc = "gc_wait"], {}, Child(p, CtxSel(f.i)) :> CalledWith(c, f.env))
    /\ UNCHANGED <<creds, cfg, binder, saved, events, nchats>>

\* getContext, lines 351-369: the context tool returned.
GetContextReturn(p) ==
    /\ At(p, "gc_wait")
    /\ LET f == frames[p]
           cp == Child(p, CtxSel(f.i))
       IN  /\ At(cp, "done")
           /\ LET r == frames[cp].ret
                  f2 == IF ~IsNil(r.err) THEN Returned(f, Nil, r.err)
                        ELSE IF ~IsNil(Deref(r.state).Continuation)
                        THEN AfterContextSuspended(f, SuspendedContext(f, Deref(r.state)))
                        ELSE IF IsNil(Deref(r.state).Result) THEN Panicked(f)
                        ELSE Advance([f EXCEPT
                                 !.pc = "gc",
                                 !.result = Append(f.result, [ToolID |-> frames[cp].tool,
                                                              Content |-> Deref(Deref(r.state).Result)]),
                                 !.i = f.i + 1])
              IN  Commit(p, f2, {cp}, NoFrames)
    /\ events' = events \cup {ReturnEvent(Child(p, CtxSel(frames[p].i)), frames[Child(p, CtxSel(frames[p].i))])}
    /\ UNCHANGED <<creds, cfg, binder, saved, nchats>>

AuthAnswers ==
    {[accept |-> TRUE, msg |-> "", err |-> NoErr]}
    \cup {[accept |-> FALSE, msg |-> m, err |-> NoErr] : m \in AuthMessages}
    \cup {[accept |-> FALSE, msg |-> "", err |-> Some(Err("error", "authorizer"))]}

\* A rejection that carries the bare message: C4 tells it from Rejected.
RejectedBare(msg) == [ZeroState EXCEPT !.Continuation = Some(Return(Some(msg), NoCalls, Nil))]

\* The state start returns for a rejected command (lines 434-441).
Rejected(msg) == [ZeroState EXCEPT !.Continuation = Some(Return(Some(AuthorizationError(msg)), NoCalls, Nil))]

\* start, lines 427-442: the authorizer is consulted for a command tool.
Authorize(p) ==
    /\ At(p, "auth")
    /\ \E a \in AuthAnswers :
         LET f == frames[p]
             f2 == IF ~IsNil(a.err) THEN Returned(f, Nil, a.err)
                   ELSE IF ~a.accept THEN AfterStart(f, Rejected(a.msg))
                   ELSE [f EXCEPT !.pc = "estart"]
         IN  /\ Commit(p, f2, {}, NoFrames)
             /\ events' = events \cup {AuthEvent(p, f, a)}
    /\ UNCHANGED <<creds, cfg, binder, saved, nchats>>

\* start, lines 444-451: e.Start.
EngineStart(p) ==
    /\ At(p, "estart")
    /\ \E ans \in EngineStartAnswers(frames[p].tool, frames[p].input) :
         LET f == frames[p]
             f2 == IF ~IsNil(ans.err) THEN Returned(f, Nil, ans.err)
                   ELSE AfterStart(f, [ZeroState EXCEPT !.Continuation = ans.ret])
         IN  /\ Commit(p, f2, {}, NoFrames)
             /\ events' = events \cup {StartEvent(p, f)}
    /\ UNCHANGED <<creds, cfg, binder, saved, nchats>>

\* resume, lines 515-532.
ResumeBegin(p) ==
    /\ At(p, "resume")
    /\ LET f0 == [frames[p] EXCEPT !.progress = NoPump]
           f == StreamProgress(f0)
           st == Deref(f.state)
           f2 == IF st.StartContinuation
                 THEN Returned(f0, Nil, IllegalState("resume should not have StartContinuation set to true"))
                 ELSE IF IsNil(st.Continuation)
                 THEN Returned(f0, Nil, IllegalState("resume should have Continuation data"))
                 ELSE IF HasCredentials(f.tool)
                 THEN [f EXCEPT !.pc = "hc", !.hcMode = "resume", !.env = f.env0]
                 ELSE AfterHandleCredentials([f EXCEPT !.hcMode = "resume", !.env = f.env0])
       IN  Commit(p, f2, {}, NoFrames)
    /\ UNCHANGED <<creds, cfg, binder, saved, events, nchats>>

\* A resume that emits no callFinish: C13 tells it from CallFinishEvents.
NoCallFinish(p, f, st) == {}

\* resume, lines 535-542: callFinish is emitted on the terminal branch.
CallFinishEvents(p, f, st) ==
    IF IsTerminal(st) THEN {CallFinishEvent(p, f, Deref(Deref(st.Continuation).Result))} ELSE {}

\* resume, lines 535-566, and subCalls, lines 713-756: the terminal check,
\* then subCalls up to its first sub-call.
ResumeLoop(p) ==
    /\ At(p, "loop")
    /\ LET f == frames[p]
           st == Deref(f.state)
           m == Matching(st)
           k == ResumedEntry(st)
       IN  IF IsTerminal(st)
           THEN Commit(p, Returned(ProgressClose(f), Some(TerminalState(f.tool, st)), NoErr), {}, NoFrames)
           ELSE IF ~IsNil(st.InputContextContinuation)
           THEN Commit(p, Advance(AfterSubCalls(f, st, <<>>)), {}, NoFrames)
           ELSE IF st.SubCallID # NoID
           THEN IF IsNil(st.ResumeInput)
                THEN Commit(p, AfterSubCallsError(f, IllegalState("input must be set for sub call continuation")), {}, NoFrames)
                ELSE IF m = {}
                THEN Commit(p, AfterSubCallsError(f, IllegalState("failed to find subCall for subCallID")), {}, NoFrames)
                ELSE Commit(p, [f EXCEPT !.pc = "sr_wait", !.k = k], {},
                            Child(p, SubSel(st.SubCallID)) :>
                                CalledWith(NewFrame(st.SubCalls[k].ToolID, "resume", "",
                                                    Some(WithResumeInput(st.SubCalls[k].State, st.ResumeInput))),
                                           f.env))
           ELSE Commit(p, [f EXCEPT !.pc = "dispatch",
                                    !.ids = SortIds(DOMAIN Deref(st.Continuation).Calls),
                                    !.started = <<>>, !.running = {}, !.callResults = <<>>,
                                    !.derr = NoErr, !.cancelled = FALSE], {}, NoFrames)
    /\ events' = events \cup CallFinishEvents(p, frames[p], Deref(frames[p].state))
    /\ UNCHANGED <<creds, cfg, binder, saved, nchats>>

\* subCalls, lines 731-749: the resumed sub-call returned.
SubCallResumeReturn(p) ==
    /\ At(p, "sr_wait")
    /\ LET f == frames[p]
           st == Deref(f.state)
           cp == Child(p, SubSel(st.SubCallID))
       IN  /\ At(cp, "done")
           /\ LET r == frames[cp].ret
                  callResults == [j \in 1..Len(st.SubCalls) |->
                                    IF j = f.k
                                    THEN SubCallResult(st.SubCalls[j].ToolID, st.SubCalls[j].CallID, Deref(r.state))
                                    ELSE st.SubCalls[j]]
                  f2 == IF ~IsNil(r.err) THEN AfterSubCallsError(f, r.err)
                        ELSE Advance(AfterSubCalls(f, WithResumeInput(st, Nil), callResults))
              IN  Commit(p, f2, {cp}, NoFrames)
    /\ events' = events \cup {ReturnEvent(Child(p, SubSel(Deref(frames[p].state).SubCallID)), frames[Child(p, SubSel(Deref(frames[p].state).SubCallID))])}
    /\ UNCHANGED <<creds, cfg, binder, saved, nchats>>

(***************************************************************************)
(* The dispatcher of subCalls (lines 752-783): the serial one runs the      *)
(* submitted calls one after the other and stops at the first error, the    *)
(* parallel one runs them all at once.                                      *)
(***************************************************************************)
SubCallFrame(st, id) ==
    NewFrame(Deref(st.Continuation).Calls[id].ToolID, "call", Deref(st.Continuation).Calls[id].Input, Nil)

\* The ids the dispatcher starts next.
\* A dispatcher that goes on after an error: C25 tells it from NextToRun.
RunDespiteError(f) ==
    IF cfg.sequential
    THEN IF f.running = {} /\ Len(f.ids) > 0 THEN {f.ids[1]} ELSE {}
    ELSE {f.ids[j] : j \in 1..Len(f.ids)}

\* The parallel dispatcher cancels the context of its tasks on the first error.
CancelsOnError == ~cfg.sequential

NextToRun(f) ==
    IF cfg.sequential
    THEN IF f.running = {} /\ IsNil(f.derr) /\ Len(f.ids) > 0 THEN {f.ids[1]} ELSE {}
    ELSE {f.ids[j] : j \in 1..Len(f.ids)}

DispatchRun(p) ==
    /\ At(p, "dispatch")
    /\ LET f == frames[p]
           st == Deref(f.state)
           run == NextToRun(f)
           rest == SelectSeq(f.ids, LAMBDA id : id \notin run)
           go == SelectSeq(f.ids, LAMBDA id : id \in run)
       IN  /\ run # {}
           /\ Commit(p, [f EXCEPT !.ids = rest, !.started = f.started \o go, !.running = f.running \cup run],
                     {}, [q \in {Child(p, SubSel(id)) : id \in run} |-> CalledWith(SubCallFrame(st, q[Len(q)].id), f.env)])
    /\ UNCHANGED <<creds, cfg, binder, saved, events, nchats>>

\* A result put in front of the earlier ones: the order C3 tells from that of
\* AppendResult.
PrependResult(callResults, cr) == <<cr>> \o callResults

\* Lines 766-772: callResults = append(callResults, SubCallResult{...}).
AppendResult(callResults, cr) == Append(callResults, cr)

\* The task of one call (lines 760-775): its result is appended under resultLock.
SubCallReturn(p, id) ==
    /\ At(p, "dispatch")
    /\ id \in frames[p].running
    /\ LET f == frames[p]
           st == Deref(f.state)
           cp == Child(p, SubSel(id))
       IN  /\ At(cp, "done")
           /\ LET r == frames[cp].ret
                  f2 == IF ~IsNil(r.err)
                        THEN [f EXCEPT !.running = f.running \ {id},
                                       !.derr = IF IsNil(f.derr) THEN r.err ELSE f.derr,
                                       !.cancelled = f.cancelled \/ CancelsOnError]
                        ELSE [f EXCEPT !.running = f.running \ {id},
                                       !.callResults = AppendResult(f.callResults,
                                           SubCallResult(Deref(st.Continuation).Calls[id].ToolID, id, Deref(r.state)))]
              IN  Commit(p, f2, {cp}, NoFrames)
    /\ events' = events \cup {ReturnEvent(Child(p, SubSel(id)), frames[Child(p, SubSel(id))])}
    /\ UNCHANGED <<creds, cfg, binder, saved, nchats>>

\* d.Wait(), lines 778-782, and what resume does with the outcome.
DispatchWait(p) ==
    /\ At(p, "dispatch")
    /\ LET f == frames[p]
           st == Deref(f.state)
       IN  /\ f.running = {}
           /\ NextToRun(f) = {}
           /\ Commit(p, IF ~IsNil(f.derr) THEN AfterSubCallsError(f, f.derr)
                        ELSE Advance(AfterSubCalls(f, st, f.callResults)), {}, NoFrames)
    /\ UNCHANGED <<creds, cfg, binder, saved, events, nchats>>

\* resume, lines 619-633: e.Continue.
EngineContinue(p) ==
    /\ At(p, "econt")
    /\ LET f == frames[p]
           st == Deref(f.state)
           results == IF IsNil(st.ResumeInput) THEN f.engineResults
                      ELSE Append(f.engineResults, UserCallResult(Deref(st.ResumeInput)))
       IN  \E ans \in EngineContinueAnswers(f.tool, Deref(st.Continuation).State) :
             LET f2 == IF ~IsNil(ans.err) THEN Returned(f, Nil, ans.err)
                       ELSE [f EXCEPT !.pc = "loop",
                                      !.state = Some([ZeroState EXCEPT !.Continuation = ans.ret,
                                                                       !.SubCalls = f.callResults])]
             IN  /\ Commit(p, f2, {}, NoFrames)
                 /\ events' = events \cup {ContinueEvent(p, f, Deref(st.Continuation).State,
                                                           DOMAIN Deref(st.Continuation).Calls, results)}
    /\ UNCHANGED <<creds, cfg, binder, saved, nchats>>

(***************************************************************************)
(* The JSON form of a State (struct tags of lines 454-468 and 695-699).     *)
(* An object is a function from member names to values; every field is      *)
(* omitempty: a nil pointer, an empty string, an empty slice or map and      *)
(* false leave no member, and a missing member decodes to the zero value.   *)
(* A nil and an empty slice, or map, are one value here: the Runner only    *)
(* takes their length and ranges over them.                                 *)
(***************************************************************************)
NoMembers == [x \in {} |-> ""]
Member(name, present, value) == IF present THEN name :> value ELSE NoMembers
MemberOr(obj, name, zero) == IF name \in DOMAIN obj THEN obj[name] ELSE zero

\* engine.Return{State, Calls, Result}
ReturnToJSON(r) ==
    Member("state", ~IsNil(r.State), Deref(r.State))
    @@ Member("calls", DOMAIN r.Calls # {}, r.Calls)
    @@ Member("result", ~IsNil(r.Result), Deref(r.Result))

ReturnFromJSON(obj) ==
    Return(IF "result" \in DOMAIN obj THEN Some(obj["result"]) ELSE Nil,
           MemberOr(obj, "calls", NoCalls),
           IF "state" \in DOMAIN obj THEN Some(obj["state"]) ELSE Nil)

RECURSIVE ToJSON(_)
\* An encoder that leaves the nested states of context tools out: C19 tells it
\* from ToJSON.
ToJSONShallow(s) ==
    Member("continuation", ~IsNil(s.Continuation), ReturnToJSON(Deref(s.Continuation)))
    @@ Member("continuationToolID", s.ContinuationToolID # "", s.ContinuationToolID)
    @@ Member("result", ~IsNil(s.Result), Deref(s.Result))
    @@ Member("resumeInput", ~IsNil(s.ResumeInput), Deref(s.ResumeInput))
    @@ Member("subCalls", Len(s.SubCalls) > 0,
              [j \in 1..Len(s.SubCalls) |->
                  Member("toolId", s.SubCalls[j].ToolID # "", s.SubCalls[j].ToolID)
                  @@ Member("callId", s.SubCalls[j].CallID # NoID, s.SubCalls[j].CallID)
                  @@ Member("state", TRUE, ToJSON(s.SubCalls[j].State))])
    @@ Member("subCallID", s.SubCallID # NoID, s.SubCallID)
    @@ Member("inputContexts", Len(s.InputContexts) > 0, s.InputContexts)
    @@ Member("inputContextContinuationInput", s.InputContextContinuationInput # "",
              s.InputContextContinuationInput)
    @@ Member("inputContextContinuationResumeInput", ~IsNil(s.InputContextContinuationResumeInput),
              Deref(s.InputContextContinuationResumeInput))
    @@ Member("startContinuation", s.StartContinuation, TRUE)

\* json.Marshal of a State.
ToJSON(s) ==
    ToJSONShallow(s)
    @@ Member("inputContextContinuation", ~IsNil(s.InputContextContinuation),
              ToJSON(Deref(s.InputContextContinuation)))

RECURSIVE FromJSON(_)
\* json.Unmarshal into &State{} (lines 136-140).
FromJSON(obj) ==
    [ Continuation |-> IF "continuation" \in DOMAIN obj
                       THEN Some(ReturnFromJSON(obj["continuation"])) ELSE Nil,
      ContinuationToolID |-> MemberOr(obj, "continuationToolID", ""),
      Result |-> IF "result" \in DOMAIN obj THEN Some(obj["result"]) ELSE Nil,
      ResumeInput |-> IF "resumeInput" \in DOMAIN obj THEN Some(obj["resumeInput"]) ELSE Nil,
      SubCalls |-> IF "subCalls" \in DOMAIN obj
                   THEN [j \in 1..Len(obj["subCalls"]) |->
                            SubCallResult(MemberOr(obj["subCalls"][j], "toolId", ""),
                                          MemberOr(obj["subCalls"][j], "callId", NoID),
                                          FromJSON(obj["subCalls"][j]["state"]))]
                   ELSE <<>>,
      SubCallID |-> MemberOr(obj, "subCallID", NoID),
      InputContexts |-> MemberOr(obj, "inputContexts", <<>>),
      InputContextContinuation |-> IF "inputContextContinuation" \in DOMAIN obj
                                   THEN Some(FromJSON(obj["inputContextContinuation"])) ELSE Nil,
      InputContextContinuationInput |-> MemberOr(obj, "inputContextContinuationInput", ""),
      InputContextContinuationResumeInput |->
          IF "inputContextContinuationResumeInput" \in DOMAIN obj
          THEN Some(obj["inputContextContinuationResumeInput"]) ELSE Nil,
      StartContinuation |-> MemberOr(obj, "startContinuation", FALSE) ]

\* Lines 130-144: the State that Chat makes of prevState, which the caller
\* passes as the live *State or as the string of its JSON.
PrevStates(s) == {s, Some(FromJSON(ToJSON(Deref(s))))}

(***************************************************************************)
(* Chat (lines 127-198) and Run (lines 200-206)                            *)
(***************************************************************************)
NoResponse == [Done |-> FALSE, Content |-> "", ToolID |-> "", State |-> Nil]

\* The monitor of a Chat call: whether r.factory.Start gave one (line 146), and
\* the calls of its Stop with their arguments.
NoMonitor == [started |-> FALSE, stops |-> 0, output |-> "", err |-> NoErr]
StartedMonitor == [NoMonitor EXCEPT !.started = TRUE]

\* A monitor whose Stop is not called: C12 tells it from Stopped.
NotStopped(m, output, err) == m

\* Lines 150-152: the deferred monitor.Stop(resp.Content, err).
Stopped(m, output, err) == [m EXCEPT !.stops = m.stops + 1, !.output = output, !.err = err]

\* The returns of Chat that come before the monitor: a prevState that is
\* neither a *State nor a string (line 141), a string that is not the JSON of
\* a State (lines 136-138), and the error of r.factory.Start (lines 146-149).
Refusals(api) ==
    IF api = "Run" THEN {"monitor factory"}
    ELSE {"invalid type for state object", "failed to unmarshal chat state", "monitor factory"}

\* Lines 129-149: Chat returns before it has entered the program.
ChatRefused(api) ==
    /\ chat.pc = "idle"
    /\ nchats < MaxChats
    /\ nchats > 0 => api = "Chat"
    /\ \E why \in Refusals(api) :
          chat' = [pc |-> "idle", api |-> api,
                   input |-> IF nchats = 0 THEN FirstInput ELSE UserInput(nchats),
                   resp |-> NoResponse, err |-> Some(Err("error", why)), final |-> Nil,
                   output |-> "", runErr |-> Some(Err("error", why)), monitor |-> NoMonitor]
    /\ nchats' = nchats + 1
    /\ UNCHANGED <<creds, cfg, binder, saved, frames, events>>

\* Lines 128-167: the entry frame is entered at start or at resume.
ChatBegin(api) ==
    /\ chat.pc = "idle"
    /\ nchats < MaxChats
    /\ IF nchats = 0 THEN TRUE ELSE api = "Chat" /\ ~IsNil(saved)
    /\ \E prev \in IF nchats = 0 THEN {Nil} ELSE PrevStates(saved) :
       LET input == IF nchats = 0 THEN FirstInput ELSE UserInput(nchats)
           root == IF IsNil(prev) THEN NewFrame(cfg.entry, "call", input, Nil)
                   ELSE IF Deref(prev).StartContinuation
                   THEN NewFrame(cfg.entry, "call", Deref(prev).InputContextContinuationInput,
                                 Some(WithResumeInput(Deref(prev), Some(input))))
                   ELSE NewFrame(cfg.entry, "resume", "", Some(WithResumeInput(Deref(prev), Some(input))))
       IN  /\ frames' = Root :> root
           /\ chat' = [pc |-> "running", api |-> api, input |-> input, resp |-> NoResponse,
                       err |-> NoErr, final |-> Nil, output |-> "", runErr |-> NoErr,
                       monitor |-> StartedMonitor]
    /\ nchats' = nchats + 1
    /\ UNCHANGED <<creds, cfg, binder, saved, events>>

\* A response that hands the State back also when it has a Result: C8 tells it
\* from Response.
ResponseWithState(s) ==
    [resp |-> [Done |-> FALSE,
               Content |-> IF IsNil(s.Result) THEN "" ELSE Deref(s.Result),
               ToolID |-> "", State |-> Some(s)],
     err |-> NoErr]

\* Lines 176-197: the response for the final state.
Response(s) ==
    IF ~IsNil(s.Result)
    THEN [resp |-> [Done |-> TRUE, Content |-> Deref(s.Result), ToolID |-> "", State |-> Nil], err |-> NoErr]
    ELSE IF IsNil(ContinuationContent(s)) \/ IsNil(ContinuationContentToolID(s))
    THEN [resp |-> NoResponse, err |-> IllegalState("no result message found in chat response")]
    ELSE [resp |-> [Done |-> FALSE, Content |-> Deref(ContinuationContent(s)),
                    ToolID |-> Deref(ContinuationContentToolID(s)), State |-> Some(s)],
          err |-> NoErr]

\* Run, lines 201-205: what Run makes of Chat's response.
RunResult(resp, err) ==
    IF ~IsNil(err) THEN [output |-> "", err |-> err]
    ELSE [output |-> resp.Content, err |-> NoErr]

\* Chat returns: start / resume of the entry frame returned.
ChatEnd ==
    /\ chat.pc = "running"
    /\ At(Root, "done")
    /\ LET r == frames[Root].ret
           out == IF ~IsNil(r.err) THEN [resp |-> NoResponse, err |-> r.err]
                  ELSE Response(Deref(r.state))
           run == RunResult(out.resp, out.err)
       IN  /\ chat' = [chat EXCEPT !.pc = "idle", !.resp = out.resp, !.err = out.err,
                                   !.final = r.state, !.output = run.output, !.runErr = run.err,
                                   !.monitor = Stopped(chat.monitor, out.resp.Content, out.err)]
           /\ saved' = out.resp.State
    /\ frames' = NoFrames
    /\ events' = events \cup {ReturnEvent(Root, frames[Root])}
    /\ UNCHANGED <<creds, cfg, binder, nchats>>

Init ==
    /\ cfg \in [sequential : BOOLEAN, entry : EntryTools]
    /\ chat = [pc |-> "idle", api |-> "", input |-> "", resp |-> NoResponse,
               err |-> NoErr, final |-> Nil, output |-> "", runErr |-> NoErr, monitor |-> NoMonitor]
    /\ saved = Nil
    /\ frames = NoFrames
    /\ events = {}
    /\ nchats = 0
    /\ creds = NoCredentials
    /\ binder = NoBinder

Paths == DOMAIN frames

Next ==
    \/ \E api \in {"Chat", "Run"} : ChatBegin(api)
    \/ \E api \in {"Chat", "Run"} : ChatRefused(api)
    \/ ChatEnd
    \/ \E p \in Paths : StartBegin(p)
    \/ \E p \in Paths : HandleCredentials(p)
    \/ \E p \in Paths : HandleCredentialsReturn(p)
    \/ \E p \in Paths : GetContextCall(p)
    \/ \E p \in Paths : GetContextReturn(p)
    \/ \E p \in Paths : Authorize(p)
    \/ \E p \in Paths : EngineStart(p)
    \/ \E p \in Paths : ResumeBegin(p)
    \/ \E p \in Paths : ResumeLoop(p)
    \/ \E p \in Paths : SubCallResumeReturn(p)
    \/ \E p \in Paths : DispatchRun(p)
    \/ \E p \in Paths : \E id \in frames[p].running : SubCallReturn(p, id)
    \/ \E p \in Paths : DispatchWait(p)
    \/ \E p \in Paths : EngineContinue(p)

Spec == Init /\ [][Next]_vars

(***************************************************************************)
(* resume on its own (lines 514-635): the entry frame is a call of resume   *)
(* with a State built by the caller, which need not be one the Runner has   *)
(* returned.  saved keeps the given State.                                  *)
(***************************************************************************)
ResumeTools == {"TX", "CB", "T"}

\* The State of a Chat tool that ended its turn with a message.
PausedState(tool) ==
    [ZeroState EXCEPT
        !.Continuation = Some(Return(Some(ResultText(tool, 1)), NoCalls, Some(EngineState(tool, "", 1, 0)))),
        !.ContinuationToolID = tool]

\* The State of a tool whose LLM asked for all its tool calls.
CallingState(tool) ==
    [ZeroState EXCEPT
        !.Continuation = Some(Return(Nil, CallsOf(tool, DOMAIN ToolSet[tool].Calls),
                                     Some(EngineState(tool, "", 1, 1))))]

ResumeStates(tool) ==
    {[ZeroState EXCEPT
         !.Continuation = c,
         !.StartContinuation = sc,
         !.SubCallID = id,
         !.SubCalls = subs,
         !.ResumeInput = ri,
         !.InputContextContinuation = icc] :
       c \in {Nil, PausedState(tool).Continuation, CallingState(tool).Continuation},
       sc \in BOOLEAN,
       id \in {NoID, id1, id2},
       subs \in {<<>>, <<SubCallResult("K", id1, PausedState("K"))>>},
       ri \in {Nil, Some(UserInput(1))},
       icc \in {Nil, Some(PausedState("P"))}}

ResumeInit ==
    /\ cfg \in [sequential : {FALSE}, entry : ResumeTools]
    /\ chat = [pc |-> "running", api |-> "Chat", input |-> "", resp |-> NoResponse,
               err |-> NoErr, final |-> Nil, output |-> "", runErr |-> NoErr, monitor |-> StartedMonitor]
    /\ saved \in {Some(st) : st \in ResumeStates(cfg.entry)}
    /\ frames = Root :> NewFrame(cfg.entry, "resume", "", saved)
    /\ events = {}
    /\ nchats = 1
    /\ creds = NoCredentials
    /\ binder = NoBinder

ResumeNext ==
    \/ \E p \in Paths : StartBegin(p)
    \/ \E p \in Paths : HandleCredentials(p)
    \/ \E p \in Paths : HandleCredentialsReturn(p)
    \/ \E p \in Paths : GetContextCall(p)
    \/ \E p \in Paths : GetContextReturn(p)
    \/ \E p \in Paths : Authorize(p)
    \/ \E p \in Paths : EngineStart(p)
    \/ \E p \in Paths : ResumeBegin(p)
    \/ \E p \in Paths : ResumeLoop(p)
    \/ \E p \in Paths : SubCallResumeReturn(p)
    \/ \E p \in Paths : DispatchRun(p)
    \/ \E p \in Paths : \E id \in frames[p].running : SubCallReturn(p, id)
    \/ \E p \in Paths : DispatchWait(p)
    \/ \E p \in Paths : EngineContinue(p)

ResumeSpec == ResumeInit /\ [][ResumeNext]_vars

(***************************************************************************)
(* The program under a scheduler that lets every goroutine that can take a *)
(* step take one: a frame that is not blocked goes on.  Whether the caller *)
(* makes another Chat is left open.                                        *)
(***************************************************************************)
FrameNext == ResumeNext
LiveSpec == Init /\ [][Next]_vars /\ WF_vars(FrameNext)

(***************************************************************************)
(* getContextInput on its own: every Arg of up to MaxFields tokens, every  *)
(* target schema and every parent input.                                   *)
(***************************************************************************)
BinderInit ==
    /\ cfg = [sequential |-> FALSE, entry |-> "TX"]
    /\ chat = [pc |-> "idle", api |-> "", input |-> "", resp |-> NoResponse,
               err |-> NoErr, final |-> Nil, output |-> "", runErr |-> NoErr, monitor |-> NoMonitor]
    /\ saved = Nil
    /\ frames = NoFrames
    /\ events = {}
    /\ nchats = 0
    /\ creds = NoCredentials
    /\ binder \in [pc : {"called"}, arguments : ArgumentsSet, arg : Args, input : ParentInputs,
                    result : {BinderOk(<<>>)}]

\* getContextInput, called at line 340.
GetContextInputCall ==
    /\ binder.pc = "called"
    /\ \E tk \in TargetKeys(IF IsNil(binder.arguments) THEN {} ELSE Deref(binder.arguments)) :
           binder' = [binder EXCEPT !.pc = "returned",
                                    !.result = BindContextInput(binder.arguments, tk, binder.arg, binder.input)]
    /\ UNCHANGED <<cfg, chat, saved, frames, events, nchats, creds>>

BinderNext == GetContextInputCall

BinderSpec == BinderInit /\ [][BinderNext]_vars

(***************************************************************************)
(* Properties.                                                             *)
(***************************************************************************)
IsPrefix(p, q) == Len(p) <= Len(q) /\ SubSeq(q, 1, Len(p)) = p
Last(p) == p[Len(p)]
Returns == {e \in events : e.op = "Return"}
Continues == {e \in events : e.op = "Continue"}
Starts == {e \in events : e.op = "Start"}
Auths == {e \in events : e.op = "Auth"}

\* The call ids of the CallResults of a Continue, in order (the user's input
\* is the CallResult without a call id).
ResultIDs(results) == [j \in 1..Len(SelectSeq(results, LAMBDA r : r.CallID # NoID)) |->
                          SelectSeq(results, LAMBDA r : r.CallID # NoID)[j].CallID]
UserInputs(results) == {results[j].User : j \in {x \in 1..Len(results) : results[x].CallID = NoID}}

LexSorted(ids) == \A a, b \in 1..Len(ids) : a < b => LexLess(ids[a], ids[b])
NoDuplicates(ids) == \A a, b \in 1..Len(ids) : a # b => ids[a] # ids[b]
Range(seq) == {seq[j] : j \in 1..Len(seq)}

\* The tool-call frames running under the frame at p.
SubFramesOf(p) == {q \in DOMAIN frames : Len(q) = Len(p) + 1 /\ IsPrefix(p, q) /\ Last(q).kind = "sub"}

\* Same frame: the events of one invocation at one path.
SameFrame(e1, e2) == e1.path = e2.path /\ e1.inv = e2.inv
\* e is an event of a frame called by the frame of r.
CalledBy(e, r) == e.path # Root /\ Parent(e.path) = r.path /\ e.pinv = r.inv

\* C1: with Sequential=true the sub-calls of a fanout are started one at a time
\* in lexicographic order of call id (the ids handed to the dispatcher so far
\* are in that order, those still to come are greater, and at most one sub-call
\* frame runs), and every engine.Continue receives its CallResults in
\* lexicographic order of call id, also after a suspension and a resume.
C1_SequentialOrder ==
    cfg.sequential =>
        /\ \A p \in DOMAIN frames :
              /\ Cardinality(SubFramesOf(p)) <= 1
              /\ frames[p].pc = "dispatch" =>
                    /\ LexSorted(frames[p].started \o frames[p].ids)
                    /\ LexSorted([j \in 1..Len(frames[p].callResults) |-> frames[p].callResults[j].CallID])
                    /\ \A q \in SubFramesOf(p) : Last(q).id = Last(frames[p].started)
        /\ \A e \in Continues : LexSorted(ResultIDs(e.results))

\* A Continue of three results, out of numeric order ("1" < "10" < "2"), given
\* in the Chat that resumed a suspended sub-call.
C1_Witness ==
    /\ cfg.sequential
    /\ \E e \in Continues :
          /\ ResultIDs(e.results) = <<id1, id10, id2>>
          /\ e.chat >= 2
          /\ \E r \in Returns : r.path = Root /\ r.chat = e.chat - 1 /\ Deref(r.state).SubCallID = id10

\* C2: every engine.Continue that answers a non-empty Calls map receives
\* exactly one CallResult per call id of that map.
C2_OneResultPerCall ==
    \A e \in Continues :
        e.calls # {} => NoDuplicates(ResultIDs(e.results)) /\ Range(ResultIDs(e.results)) = e.calls

\* C3 as claimed: in every mode the CallResults of a Continue are in
\* lexicographic order of call id.
C3_AlwaysLexOrder ==
    \A e \in Continues : LexSorted(ResultIDs(e.results))

\* C3 amended: in parallel mode the CallResults are in the order in which the
\* sub-calls completed (each result is appended behind the earlier ones), the
\* ids are keys of the Calls map and none is repeated; the order is
\* lexicographic when Sequential=true.
C3_CompletionOrder ==
    [][\A p \in DOMAIN frames : \A q \in SubFramesOf(p) :
          /\ frames[p].pc = "dispatch"
          /\ frames[q].pc = "done"
          /\ IsNil(frames[q].ret.err)
          /\ q \notin DOMAIN frames'
          /\ p \in DOMAIN frames'
          => /\ frames'[p].pc = "dispatch" =>
                    frames'[p].callResults =
                        frames[p].callResults \o <<SubCallResult(frames[q].tool, Last(q).id, Deref(frames[q].ret.state))>>
             /\ \A e \in Continues' : /\ NoDuplicates(ResultIDs(e.results))
                                          /\ Range(ResultIDs(e.results)) \subseteq e.calls
                                          /\ cfg.sequential => LexSorted(ResultIDs(e.results))]_vars

\* A Continue in parallel mode whose CallResults are out of lexicographic order.
C3_Witness ==
    /\ ~cfg.sequential
    /\ \E e \in Continues : Len(ResultIDs(e.results)) >= 2 /\ ~LexSorted(ResultIDs(e.results))

\* The content with which a call ended: its Result, or for a Chat tool the
\* Result of its Continuation.
TerminalContent(st) ==
    IF ~IsNil(st.Result) THEN st.Result
    ELSE IF ~IsNil(st.Continuation) THEN Deref(st.Continuation).Result
    ELSE Nil

Rejections == {e \in Auths : ~e.accept /\ IsNil(e.err)}

\* C4: when the authorizer rejects a command tool that is not safe-listed with
\* message m, engine.Start is not invoked for that frame, and the frame returns
\* without error with the content "[AUTHORIZATION ERROR]: " followed by m.
C4_AuthorizationError ==
    \A e \in Rejections :
        /\ NeedsAuthorization(e.tool)
        /\ \A s \in Starts : ~SameFrame(s, e)
        /\ \A r \in Returns : SameFrame(r, e) =>
              /\ IsNil(r.err)
              /\ TerminalContent(Deref(r.state)) = Some("[AUTHORIZATION ERROR]: no")
              /\ e.msg = "no"
        /\ e.path \in DOMAIN frames /\ e.inv = Invocation(e.path) =>
              /\ frames[e.path].pc \in {"resume", "loop", "done"}
              /\ IsNil(frames[e.path].ret.err)

\* A sub-call of a fanout returned after its command was rejected.
C4_Witness ==
    \E e \in Rejections : \E r \in Returns :
        /\ SameFrame(r, e)
        /\ e.path # Root
        /\ Deref(r.state).Result = Some("[AUTHORIZATION ERROR]: no")

\* The context-tool frames called by the invocation inv of the frame at p that
\* returned a state with a Continuation.
SuspendedProviders(p, inv) ==
    {c \in Returns : /\ c.path # Root
                     /\ Parent(c.path) = p
                     /\ c.pinv = inv
                     /\ Last(c.path).kind = "ctx"
                     /\ IsNil(c.err)
                     /\ ~IsNil(Deref(c.state).Continuation)}

\* The last return of the context tool at index j of the frame at p.
LastProviderReturn(p, j) ==
    {c \in Returns : /\ c.path = Child(p, CtxSel(j))
                     /\ \A d \in Returns : d.path = c.path => d.inv <= c.inv}

EngineEntered(p, inv) == \E e \in Auths \cup Starts : e.path = p /\ e.inv = inv

\* C5: a frame returns a State with StartContinuation=true exactly when a
\* context tool called by its start returned a state with a Continuation; that
\* state is then the InputContextContinuation, InputContexts holds the results
\* of the context tools before it, in order, and neither the authorizer nor
\* engine.Start was invoked for the frame.
C5_StartContinuation ==
    \A p \in DOMAIN frames :
        LET f == frames[p]
            sus == SuspendedProviders(p, Invocation(p))
        IN  /\ f.gcMode = "start" /\ sus # {} =>
                  /\ f.pc = "done"
                  /\ IsNil(f.ret.err)
                  /\ Deref(f.ret.state).StartContinuation
            /\ f.pc = "done" /\ IsNil(f.ret.err) /\ Deref(f.ret.state).StartContinuation =>
                  LET st == Deref(f.ret.state)
                      n == Len(st.InputContexts)
                  IN  /\ f.gcMode = "start"
                      /\ ~IsNil(st.InputContextContinuation)
                      /\ sus # {}
                      /\ \A c \in sus : /\ c.path = Child(p, CtxSel(n + 1))
                                        /\ c.state = st.InputContextContinuation
                      /\ n < Len(GetContextToolRefs(f.tool))
                      /\ \A j \in 1..n :
                            /\ st.InputContexts[j].ToolID = GetContextToolRefs(f.tool)[j]
                            /\ \A c \in LastProviderReturn(p, j) :
                                  Deref(c.state).Result = Some(st.InputContexts[j].Content)
                            /\ LastProviderReturn(p, j) # {}
                      /\ ~EngineEntered(p, Invocation(p))
                      /\ IsNil(st.Continuation) /\ IsNil(st.Result)

\* The second context tool suspended after the first one had completed.
C5_Witness ==
    \E p \in DOMAIN frames :
        /\ frames[p].pc = "done"
        /\ IsNil(frames[p].ret.err)
        /\ Deref(frames[p].ret.state).StartContinuation
        /\ Len(Deref(frames[p].ret.state).InputContexts) = 1
        /\ SuspendedProviders(p, Invocation(p)) # {}

\* The returns of the program's entry frame that left a context tool of start
\* suspended.
StartSuspensions == {r \in Returns : r.path = Root /\ IsNil(r.err) /\ Deref(r.state).StartContinuation}

\* C6: in the Chat that follows a State with StartContinuation=true the user
\* input reaches engine.Continue only in the suspended context tool (the one at
\* the index after the stored InputContexts), and engine.Start of the owning
\* tool is invoked at most once, with the input stored in
\* InputContextContinuationInput and an InputContext that holds a result of
\* that context tool.
C6_FollowUpChat ==
    \A r \in StartSuspensions :
        LET st == Deref(r.state)
            j == Len(st.InputContexts) + 1
            prov == Child(Root, CtxSel(j))
        IN  /\ \A e \in Continues :
                  e.chat = r.chat + 1 /\ UserInputs(e.results) # {} => IsPrefix(prov, e.path)
            /\ \A s \in Starts :
                  s.chat = r.chat + 1 /\ s.path = Root =>
                      /\ s.input = st.InputContextContinuationInput
                      /\ Len(s.ictx) >= j
                      /\ s.ictx[j].ToolID = GetContextToolRefs(s.tool)[j]
                      /\ \A s2 \in Starts : s2.chat = s.chat /\ s2.path = Root => s2 = s

\* A return without error that leaves nothing suspended.
IsTerminalReturn(r) ==
    /\ IsNil(r.err)
    /\ ~Deref(r.state).StartContinuation
    /\ Deref(r.state).SubCallID = NoID
    /\ IsNil(Deref(r.state).InputContextContinuation)

ChatFinishCaught(r) ==
    \E c \in Returns : /\ CalledBy(c, r)
                       /\ Last(c.path).kind = "sub"
                       /\ ~IsNil(c.err)
                       /\ Deref(c.err) = Err("chatfinish", Deref(Deref(r.state).Result))

\* C7: a terminal State of a non-Chat tool has a Result and no Continuation; a
\* terminal State of a Chat tool that reached a terminal completion has the
\* Continuation with that completion, no Result and the tool's id as
\* ContinuationToolID (a Chat tool's State has a Result only when it caught a
\* ChatFinish).
C7_TerminalShape ==
    \A r \in Returns : IsTerminalReturn(r) =>
        LET st == Deref(r.state)
        IN  IF ~ToolSet[r.tool].Chat
            THEN ~IsNil(st.Result) /\ IsNil(st.Continuation)
            ELSE IF IsNil(st.Result)
            THEN /\ ~IsNil(st.Continuation)
                 /\ ~IsNil(Deref(st.Continuation).Result)
                 /\ DOMAIN Deref(st.Continuation).Calls = {}
                 /\ st.ContinuationToolID = r.tool
            ELSE IsNil(st.Continuation) /\ ChatFinishCaught(r)

\* A Chat tool called as a sub-call returned its terminal completion, and a
\* non-Chat tool its Result.
C7_Witness ==
    /\ \E r \in Returns : /\ IsTerminalReturn(r)
                          /\ ToolSet[r.tool].Chat
                          /\ r.path # Root
                          /\ Deref(r.state).ContinuationToolID = r.tool
    /\ \E r \in Returns : /\ IsTerminalReturn(r)
                          /\ ~ToolSet[r.tool].Chat
                          /\ ~IsNil(Deref(r.state).Result)

\* Chat has returned a response without error.
ChatReturned == chat.pc = "idle" /\ nchats > 0 /\ IsNil(chat.err) /\ ~IsNil(chat.final)

\* The State of a Chat tool that ended its turn with a terminal completion.
IsChatTurn(tool, st) ==
    /\ ToolSet[tool].Chat
    /\ IsNil(st.Result)
    /\ ~st.StartContinuation
    /\ st.SubCallID = NoID
    /\ IsNil(st.InputContextContinuation)
    /\ ~IsNil(st.Continuation)

RootReturns(k) == {r \in Returns : r.path = Root /\ r.chat = k}

\* C8: Chat answers Done=true exactly when the final State has a Result, and
\* Content is then that Result; a turn of a Chat tool that ends in a terminal
\* completion is answered with Done=false, the completion as Content, the
\* tool's id and the State, which the next Chat accepts (it is resumed, not
\* refused as an invalid state, and a Chat that returns without a suspended
\* context tool has passed the next user input to engine.Continue); a
\* ChatFinish caught by the entry tool is answered with Done=true and its message.
C8_ChatTurns ==
    /\ ChatReturned =>
          LET st == Deref(chat.final)
          IN  /\ chat.resp.Done <=> ~IsNil(st.Result)
              /\ chat.resp.Done => chat.resp.Content = Deref(st.Result) /\ IsNil(saved)
              /\ IsChatTurn(cfg.entry, st) =>
                    /\ ~chat.resp.Done
                    /\ Some(chat.resp.Content) = Deref(st.Continuation).Result
                    /\ chat.resp.ToolID = cfg.entry
                    /\ chat.resp.State = chat.final
                    /\ saved = chat.final
              /\ \A r \in RootReturns(nchats) : \A c \in Returns :
                    /\ CalledBy(c, r)
                    /\ Last(c.path).kind = "sub"
                    /\ ~IsNil(c.err)
                    /\ Deref(c.err).kind = "chatfinish"
                    => chat.resp.Done /\ \E c2 \in Returns : /\ CalledBy(c2, r)
                                                             /\ c2.err = Some(Err("chatfinish", chat.resp.Content))
    /\ \A r \in Returns :
          r.path = Root /\ IsNil(r.err) /\ IsChatTurn(r.tool, Deref(r.state)) =>
              /\ \A r2 \in RootReturns(r.chat + 1) :
                    /\ ~IsNil(r2.err) => Deref(r2.err).kind # "illegal"
                    /\ IsNil(r2.err) /\ IsNil(Deref(r2.state).InputContextContinuation) =>
                          \E e \in Continues : /\ e.path = Root
                                               /\ e.chat = r.chat + 1
                                               /\ e.est = Deref(Deref(r.state).Continuation).State
                                               /\ UserInputs(e.results) = {UserInput(r.chat)}
              /\ r.chat < nchats \/ chat.pc # "idle" \/ saved = r.state

\* Two turns of a Chat tool answered with Done=false, then a ChatFinish
\* answered with Done=true.
C8_Witness ==
    /\ ChatReturned
    /\ nchats = 3
    /\ chat.resp.Done
    /\ chat.resp.Content = "in-F"
    /\ \A k \in 1..2 : \E r \in RootReturns(k) : IsNil(r.err) /\ IsChatTurn(r.tool, Deref(r.state))

\* The returns of sub-calls with an error, per calling frame.
FailedSubCalls(r) ==
    {c \in Returns : CalledBy(c, r) /\ Last(c.path).kind = "sub" /\ ~IsNil(c.err)}

\* The frame at p waits for the dispatcher, which holds the error err.
Dispatching(p, err) == At(p, "dispatch") /\ frames[p].derr = err

\* The returns of context tools with an error, per calling frame.
FailedContextCalls(r) ==
    {c \in Returns : CalledBy(c, r) /\ Last(c.path).kind = "ctx" /\ ~IsNil(c.err)}

\* C9 as claimed: a ChatFinish error returned by any sub-call of a frame is
\* turned into the State whose Result is the message, without error, when the
\* frame's tool is a Chat tool, and is returned as an error otherwise.
C9_EveryChatFinish ==
    \A r \in Returns : \A c \in Returns :
        CalledBy(c, r) /\ ~IsNil(c.err) /\ Deref(c.err).kind = "chatfinish" =>
            IF ToolSet[r.tool].Chat
            THEN IsNil(r.err) /\ r.state = Some([ZeroState EXCEPT !.Result = Some(Deref(c.err).msg)])
            ELSE ~IsNil(r.err) /\ IsNil(r.state)

\* C9 amended: when a tool call of a fanout returns a ChatFinish error, a Chat
\* frame returns no error and the State whose Result is the message (unless
\* another tool call of the fanout failed first with a plain error, which it
\* then returns), and a frame that is not a Chat frame returns an error of its
\* tool calls to its caller: the ChatFinish error itself when no other one
\* failed.  The error of a context tool, a ChatFinish included, is returned as
\* it is by every frame, Chat or not.
C9_ChatFinish ==
    /\ \A r \in Returns : \A c \in FailedSubCalls(r) :
          Deref(c.err).kind = "chatfinish" =>
              IF ToolSet[r.tool].Chat
              THEN \/ /\ IsNil(r.err)
                      /\ \E c2 \in FailedSubCalls(r) :
                            /\ Deref(c2.err).kind = "chatfinish"
                            /\ r.state = Some([ZeroState EXCEPT !.Result = Some(Deref(c2.err).msg)])
                   \/ /\ \E c2 \in FailedSubCalls(r) : Deref(c2.err).kind # "chatfinish" /\ r.err = c2.err
                      /\ IsNil(r.state)
              ELSE /\ ~IsNil(r.err)
                   /\ IsNil(r.state)
                   /\ \E c2 \in FailedSubCalls(r) : r.err = c2.err
                   /\ Cardinality(FailedSubCalls(r)) = 1 => r.err = c.err
    /\ \A r \in Returns :
          (\A c \in FailedSubCalls(r) : Deref(c.err).kind = "chatfinish") /\ FailedSubCalls(r) # {} =>
              (IsNil(r.err) <=> ToolSet[r.tool].Chat)
    /\ \A r \in Returns : \A c \in FailedContextCalls(r) : r.err = c.err /\ IsNil(r.state)
    /\ chat.pc = "idle" /\ nchats > 0 /\ ~IsNil(chat.err) /\ Deref(chat.err).kind = "chatfinish" =>
          chat.resp = NoResponse

\* A frame that is not a Chat frame returned the ChatFinish error of its
\* tool call, and the Chat frame that called it returned the message as Result.
C9_Witness ==
    \E r \in Returns : \E c \in FailedSubCalls(r) : \E d \in FailedSubCalls(c) :
        /\ ~ToolSet[c.tool].Chat
        /\ Deref(d.err).kind = "chatfinish"
        /\ c.err = d.err
        /\ ToolSet[r.tool].Chat
        /\ IsNil(r.err)
        /\ Deref(r.state).Result = Some(Deref(d.err).msg)

\* C10: Run returns an error whenever the response of its Chat is not Done.
C10_RunNotDone ==
    chat.pc = "idle" /\ nchats > 0 /\ chat.api = "Run" /\ IsNil(chat.err) /\ ~chat.resp.Done =>
        ~IsNil(chat.runErr)

\* The deepest paused frame of a State tree, found by descending
\* InputContextContinuation first and then SubCalls[SubCallID]: its content
\* and the id of its tool (Nil when the walk ends at a frame without content).
RECURSIVE DeepestPaused(_)
DeepestPaused(s) ==
    IF ~IsNil(s.InputContextContinuation)
    THEN DeepestPaused(Deref(s.InputContextContinuation))
    ELSE IF Matching(s) # {}
    THEN DeepestPaused(s.SubCalls[CHOOSE j \in Matching(s) : \A j2 \in Matching(s) : j <= j2].State)
    ELSE IF ~IsNil(s.Continuation) /\ ~IsNil(Deref(s.Continuation).Result)
    THEN Some([Content |-> Deref(Deref(s.Continuation).Result), ToolID |-> s.ContinuationToolID])
    ELSE Nil

\* C11: the Content and ToolID of every response that is not Done are those
\* of the deepest paused frame of the returned State, the context tool's when
\* the frame is suspended on a context tool.
C11_DeepestContent ==
    ChatReturned /\ ~chat.resp.Done =>
        DeepestPaused(Deref(chat.final)) = Some([Content |-> chat.resp.Content, ToolID |-> chat.resp.ToolID])

\* C12 as claimed: after every Chat call, whatever its outcome, monitor.Stop
\* has been called exactly once, with the content and the error the call
\* returned.
C12_StopAlways ==
    chat.pc = "idle" /\ nchats > 0 =>
        /\ chat.monitor.stops = 1
        /\ chat.monitor.output = chat.resp.Content
        /\ chat.monitor.err = chat.err

\* C12 amended: a Chat call that got its monitor from the factory calls
\* monitor.Stop exactly once, when it returns and not before, with the content
\* and the error it returns (Done, suspended, or an error of start or resume);
\* a call that returns before that (prevState of an invalid type, a string that
\* fails to decode, an error of the factory) has no monitor and calls no Stop.
C12_StopOnce ==
    /\ chat.pc = "running" => chat.monitor = StartedMonitor
    /\ chat.pc = "idle" /\ nchats > 0 =>
          IF chat.monitor.started
          THEN /\ chat.monitor.stops = 1
               /\ chat.monitor.output = chat.resp.Content
               /\ chat.monitor.err = chat.err
          ELSE /\ chat.monitor = NoMonitor
               /\ ~IsNil(chat.err)
               /\ Deref(chat.err).msg \in Refusals(chat.api)
               /\ IsNil(chat.final)

\* Stop has been called with the content of a suspended Chat, and in a later
\* call with the error that call returned.
C12_Witness ==
    /\ chat.pc = "idle"
    /\ chat.monitor.stops = 1
    /\ ~IsNil(chat.monitor.err)
    /\ \E r \in RootReturns(nchats) : r.err = chat.monitor.err
    /\ \E r \in RootReturns(nchats - 1) : IsNil(r.err) /\ ~IsNil(Deref(r.state).Continuation)

CallStarts == {e \in events : e.op = "CallStart"}
CallFinishes == {e \in events : e.op = "CallFinish"}
CallStarted(r) == \E e \in CallStarts : SameFrame(e, r)
CallFinished(r) == \E e \in CallFinishes : SameFrame(e, r)

\* C13 as claimed: a frame that emitted callStart and returned has emitted
\* callFinish or returned an error.
C13_StartThenFinish ==
    \A r \in Returns : CallStarted(r) => CallFinished(r) \/ ~IsNil(r.err)

\* The State of a Chat frame that caught a ChatFinish: a Result and nothing else.
IsCaughtFinish(r) == ToolSet[r.tool].Chat /\ IsNil(r.err) /\ ~IsNil(Deref(r.state).Result)

\* C13 amended: a frame emits callFinish exactly when it returns through the
\* terminal branch of resume, with the terminal content, and at most once; it
\* emits none when it returns an error, a suspended State (StartContinuation,
\* SubCallID or InputContextContinuation set) or the Result of a ChatFinish it
\* caught.  So every callStart is followed by one of callFinish, an error, a
\* suspension or a caught ChatFinish.
C13_FinishIffTerminal ==
    /\ \A r \in Returns :
          /\ CallFinished(r) <=> IsTerminalReturn(r) /\ ~IsCaughtFinish(r)
          /\ \A e \in CallFinishes : SameFrame(e, r) =>
                /\ Some(e.input) = TerminalContent(Deref(r.state))
                /\ e.tool = r.tool
                /\ \A e2 \in CallFinishes : SameFrame(e2, e) => e2 = e
    /\ \A e \in CallStarts : \A e2 \in CallStarts : SameFrame(e2, e) => e2 = e
    /\ \A e \in CallFinishes :
          e.path \in DOMAIN frames /\ e.inv = Invocation(e.path) => frames[e.path].pc = "done"

\* In one run a frame returned after callStart and callFinish, another one
\* after callStart with a suspended State, and a Chat frame that was resumed
\* returned the Result of a ChatFinish.
C13_Witness ==
    /\ \E r \in Returns : CallStarted(r) /\ CallFinished(r)
    /\ \E r \in Returns : /\ CallStarted(r)
                          /\ ~CallFinished(r)
                          /\ IsNil(r.err)
                          /\ Deref(r.state).SubCallID # NoID
    /\ \E r \in Returns : ~CallFinished(r) /\ IsCaughtFinish(r)

(***************************************************************************)
(* Credentials.                                                            *)
(***************************************************************************)
CredEntries == {creds.log[i] : i \in DOMAIN creds.log}
InHandleCredentials == {p \in DOMAIN frames : frames[p].pc = "hc_wait"}
AwaitingMutex == {p \in DOMAIN frames : frames[p].pc = "hc"}
CredentialToolFrames == {p \in DOMAIN frames : Len(p) > 0 /\ p[Len(p)].kind = "cred"}

\* C14: credential acquisitions never overlap.  At most one frame is inside
\* handleCredentials, it is the holder of credMutex, every running credential
\* tool was started by that holder, and in the record of handleCredentials
\* every lookup, run, Add and append of one call lies between that call's
\* Lock and its Unlock, with no entry of another call in between.
C14_NoOverlap ==
    /\ Cardinality(InHandleCredentials) <= 1
    /\ \A p \in DOMAIN frames : (creds.mutex = Some(p)) <=> (p \in InHandleCredentials)
    /\ \A q \in CredentialToolFrames : creds.mutex = Some(Parent(q))
    /\ \A i \in DOMAIN creds.log :
           IF creds.log[i].op = "Lock"
           THEN i = 1 \/ creds.log[i - 1].op = "Unlock"
           ELSE /\ i > 1
                /\ creds.log[i - 1].op # "Unlock"
                /\ creds.log[i - 1].path = creds.log[i].path
                /\ creds.log[i - 1].inv = creds.log[i].inv

\* C14 witness: a credential tool runs for one call while another call, in
\* the same run, is waiting for credMutex.
C14_Witness ==
    /\ InHandleCredentials # {}
    /\ AwaitingMutex # {}
    /\ \E e \in CredEntries : e.op = "Add"

\* The credential names that are kept once acquired with a value.
Storable == {n \in DOMAIN ToolMapping : IsGitHubTool(n) /\ HasRepo(ToolMapping[n])}
ValueRuns(n) == {i \in DOMAIN creds.log : /\ creds.log[i].op = "Ran"
                                          /\ creds.log[i].name = n
                                          /\ ~IsEmptyEnv(creds.log[i].env)}
Adds(n) == {i \in DOMAIN creds.log : creds.log[i].op = "Add" /\ creds.log[i].name = n}

Ran == {i \in DOMAIN creds.log : creds.log[i].op = "Ran"}
IsAppendOf(e, r) ==
    /\ e.op = "Append"
    /\ e.name = r.name /\ e.path = r.path /\ e.inv = r.inv /\ e.env = r.env
    /\ e.after = e.before \o EnvEntries(r.env)
IsAddOf(e, r) ==
    /\ e.op = "Add"
    /\ e.name = r.name /\ e.path = r.path /\ e.inv = r.inv /\ e.env = r.env

Overridden == DOMAIN CredOverrides

\* C17: for every declared credential name that is in the override map,
\* handleCredentials appends the override's key=value entries to the working
\* env, and neither looks the name up in the store, nor runs a credential tool
\* for it, nor stores anything under it.
C17_Override ==
    /\ \A i \in DOMAIN creds.log :
           LET e == creds.log[i]
           IN  /\ e.name \in Overridden =>
                      /\ e.op = "Override"
                      /\ e.after = e.before \o EnvEntries(CredOverrides[e.name])
                      /\ e.after # e.before
               /\ (e.op = "Lock" /\ ToolSet[e.tool].Credentials[1] \in Overridden) =>
                      /\ i + 1 \in DOMAIN creds.log
                      /\ creds.log[i + 1].op = "Override"
                      /\ creds.log[i + 1].name = ToolSet[e.tool].Credentials[1]
                      /\ creds.log[i + 1].path = e.path
    /\ \A n \in Overridden : n \notin DOMAIN creds.store
    /\ \A q \in CredentialToolFrames :
           ToolSet[frames[Parent(q)].tool].Credentials[frames[Parent(q)].ci] \notin Overridden

\* C17 witness: an override was applied by a call that went on to run a
\* credential tool for its next name and returned.
C17_Witness ==
    \E i, j \in DOMAIN creds.log :
        /\ creds.log[i].op = "Override" /\ creds.log[i + 1].op = "Run"
        /\ creds.log[i].after = creds.log[i].before \o <<"O=1">>
        /\ j > i /\ creds.log[j].op = "Unlock" /\ creds.log[j].path = creds.log[i].path

(***************************************************************************)
(* resume and the States it is given.                                      *)
(***************************************************************************)
\* The States the claim calls illegal.
IllegalForResume(st) ==
    \/ st.StartContinuation
    \/ IsNil(st.Continuation)
    \/ st.SubCallID # NoID /\ IsNil(st.ResumeInput)
    \/ st.SubCallID # NoID /\ Matching(st) = {}

RootContinues == {e \in Continues : e.path = Root}

\* handleCredentials of the entry frame failed: its credential tool gave nothing usable.
RootCredentialsFailed ==
    \E i \in DOMAIN creds.log :
        /\ creds.log[i].op = "Run" /\ creds.log[i].path = Root
        /\ i + 1 \in DOMAIN creds.log /\ creds.log[i + 1].op = "Unlock"

\* C18: when the State given to resume has StartContinuation set, or no
\* Continuation, or a SubCallID and no ResumeInput, or a SubCallID that
\* matches no entry of SubCalls, resume never calls engine.Continue for its
\* frame and returns an illegal-state error (or the error of its credential
\* tool, when that fails before the State is looked at).
C18_IllegalRejected ==
    (~IsNil(saved) /\ IllegalForResume(Deref(saved))) =>
        /\ RootContinues = {}
        /\ At(Root, "done") =>
               /\ ~IsNil(frames[Root].ret.err)
               /\ Deref(frames[Root].ret.err).kind = "illegal" \/ RootCredentialsFailed

(***************************************************************************)
(* prevState as JSON.                                                      *)
(***************************************************************************)
ChatResumed == chat.pc = "idle" /\ chat'.pc = "running" /\ nchats > 0

\* C19: a Chat that is given the JSON of the State returned by the previous
\* Chat begins exactly as a Chat that is given the live State: the entry frame
\* gets the same State, stamped with the new input, and so the same engine
\* calls, events and response follow.
C19_SameResume ==
    [][ChatResumed =>
          /\ FromJSON(ToJSON(Deref(saved))) = Deref(saved)
          /\ frames'[Root].state = Some(WithResumeInput(Deref(saved), Some(chat'.input)))]_vars

\* C19 witness: a Chat runs on a returned State in which a context tool is
\* suspended.
C19_Witness ==
    /\ nchats >= 2
    /\ chat.pc = "running"
    /\ ~IsNil(saved)
    /\ ~IsNil(Deref(saved).InputContextContinuation)
    /\ "continuation" \in DOMAIN ToJSON(Deref(saved))["inputContextContinuation"]

(***************************************************************************)
(* The State of a suspended sub-call.                                      *)
(***************************************************************************)
\* The returns, up to the return r of the caller, of the sub-call id of r's frame.
ChildReturns(r, id) ==
    {c \in Returns : c.path = Child(r.path, SubSel(id)) /\ c.pinv <= r.inv}
LatestChildReturns(r, id) ==
    {c \in ChildReturns(r, id) : \A c2 \in ChildReturns(r, id) : c2.inv <= c.inv}
AwaitsInput(c) == IsNil(c.err) /\ ~IsNil(Deref(c.state).Continuation)
WithSubCallID == {r \in Returns : IsNil(r.err) /\ ~IsNil(r.state) /\ Deref(r.state).SubCallID # NoID}
RosterIDs(st) == [j \in 1..Len(st.SubCalls) |-> st.SubCalls[j].CallID]

\* The shape of the State of line 584-588.
IsSubCallSuspension(r) ==
    LET st == Deref(r.state)
    IN  /\ ~IsNil(st.Continuation)
        /\ IsNil(Deref(st.Continuation).Result)
        /\ NoDuplicates(RosterIDs(st))
        /\ Range(RosterIDs(st)) = DOMAIN Deref(st.Continuation).Calls
        /\ \E j \in Matching(st) : ~IsNil(st.SubCalls[j].State.Continuation)
        /\ \A j \in 1..Len(st.SubCalls) :
               \E c \in LatestChildReturns(r, st.SubCalls[j].CallID) :
                   IsNil(c.err) /\ st.SubCalls[j].State = Deref(c.state)

\* C20: a State that resume returns with a SubCallID names a sub-call whose
\* State has a Continuation, lists every call of the fanout once with its
\* latest State and keeps the caller's Continuation with its Calls; and a
\* State is returned with a SubCallID only when the latest return of that
\* sub-call left it waiting for input.
C20_SubCallSuspension ==
    \A r \in WithSubCallID :
        /\ IsSubCallSuspension(r)
        /\ \E c \in LatestChildReturns(r, Deref(r.state).SubCallID) : AwaitsInput(c)

(***************************************************************************)
(* The resume of a suspended sub-call.                                     *)
(***************************************************************************)
EnteredUnder(p) == {q \in DOMAIN frames' \ DOMAIN frames : Len(q) = Len(p) + 1 /\ IsPrefix(p, q)}
Paused(roster) == {j \in 1..Len(roster) : ~IsNil(roster[j].State.Continuation)}

\* The roster that resume holds after subCalls: callResults, or the SubCalls
\* of the State it returned at once.
RosterAfter(f) ==
    IF f.pc = "done" THEN Deref(f.ret.state).SubCalls ELSE f.callResults

\* C21: when resume is given a State with a SubCallID, the only frame entered
\* is the resume of the roster entry with that call id, with its stored State
\* and the resume input; when it returns, the roster is the old one with that
\* entry's State replaced, every other entry unchanged and in place; and a
\* State returned with a SubCallID names the first paused entry of the roster.
C21_OnlyPausedChild ==
    [][\A p \in DOMAIN frames \cap DOMAIN frames' :
         LET f == frames[p]
             st == Deref(f.state)
         IN  /\ (f.pc = "loop" /\ st.SubCallID # NoID /\ frames'[p].pc # "loop") =>
                    /\ EnteredUnder(p) \subseteq {Child(p, SubSel(st.SubCallID))}
                    /\ \A q \in EnteredUnder(p) : \E j \in 1..Len(st.SubCalls) :
                           /\ st.SubCalls[j].CallID = st.SubCallID
                           /\ frames'[q].fn = "resume"
                           /\ frames'[q].tool = st.SubCalls[j].ToolID
                           /\ frames'[q].state = Some(WithResumeInput(st.SubCalls[j].State, st.ResumeInput))
             /\ (f.pc = "sr_wait" /\ frames'[p].pc # "sr_wait"
                   /\ IsNil(frames[Child(p, SubSel(st.SubCallID))].ret.err)) =>
                    LET roster == RosterAfter(frames'[p])
                    IN  /\ Len(roster) = Len(st.SubCalls)
                        /\ \A j \in 1..Len(roster) :
                               /\ roster[j].CallID = st.SubCalls[j].CallID
                               /\ roster[j].ToolID = st.SubCalls[j].ToolID
                               /\ roster[j].State =
                                      IF roster[j].CallID = st.SubCallID
                                      THEN Deref(frames[Child(p, SubSel(st.SubCallID))].ret.state)
                                      ELSE st.SubCalls[j].State
                        /\ frames'[p].pc = "done" =>
                               /\ Paused(roster) # {}
                               /\ \A j \in Paused(roster) :
                                      (\A j2 \in Paused(roster) : j <= j2) =>
                                          Deref(frames'[p].ret.state).SubCallID = roster[j].CallID]_vars

\* C21 witness: a returned State has two paused sub-calls, the next Chat
\* resumes the first, which completes, and returns a State that names the
\* second.
C21_Witness ==
    \E r1, r2 \in Returns :
        /\ r1.path = Root /\ r2.path = Root /\ r2.chat = r1.chat + 1
        /\ IsNil(r1.err) /\ IsNil(r2.err)
        /\ Cardinality(Paused(Deref(r1.state).SubCalls)) = 2
        /\ Deref(r1.state).SubCallID # NoID
        /\ Deref(r2.state).SubCallID # NoID
        /\ Deref(r2.state).SubCallID # Deref(r1.state).SubCallID
        /\ Cardinality(Paused(Deref(r2.state).SubCalls)) = 1

(***************************************************************************)
(* The user input of a Chat that resumes a State.                          *)
(***************************************************************************)
\* The path of the deepest paused frame of the State s of the frame at p.
RECURSIVE DeepestPath(_, _)
DeepestPath(p, s) ==
    IF ~IsNil(s.InputContextContinuation)
    THEN DeepestPath(Child(p, CtxSel(Len(s.InputContexts) + 1)), Deref(s.InputContextContinuation))
    ELSE IF Matching(s) # {}
    THEN DeepestPath(Child(p, SubSel(s.SubCallID)), s.SubCalls[ResumedEntry(s)].State)
    ELSE p

\* The Continues that were handed the input of Chat k (k >= 2).
Deliveries(k) == {e \in Continues : UserInput(k - 1) \in UserInputs(e.results)}

\* Chat k resumed the State that Chat k - 1 returned, and returned without error.
ResumedChats ==
    {k \in 2..nchats : /\ \E r \in RootReturns(k) : IsNil(r.err)
                       /\ \E r \in RootReturns(k - 1) : IsNil(r.err) /\ IsNil(Deref(r.state).Result)}
PrevState(k) == Deref((CHOOSE r \in RootReturns(k - 1) : TRUE).state)

\* C22: the input of every Chat that resumes a State is handed, as a user
\* CallResult, to exactly one engine.Continue: it is never handed to two, a
\* Chat that returns without error has handed it to one, and that one is the
\* Continue of the deepest paused frame of the State, not of an ancestor.
C22_InputOnce ==
    /\ \A k \in 2..nchats : Cardinality(Deliveries(k)) <= 1
    /\ \A k \in ResumedChats :
           /\ \E e \in Deliveries(k) : e.chat = k
           /\ \A e \in Deliveries(k) : e.path = DeepestPath(Root, PrevState(k))

(***************************************************************************)
(* getContext and the State it resumes from.                               *)
(***************************************************************************)
InGetContext(f) == f.pc \in {"gc", "gc_wait"}
HasInputContext(f) == f.pc \in {"auth", "estart", "econt"}
\* The completed InputContexts of the State that the getContext of f is given.
Completed(f) ==
    IF IsNil(f.state) THEN <<>>
    ELSE SubSeq(Deref(f.state).InputContexts, 1,
                IF Len(Deref(f.state).InputContexts) <= Len(GetContextToolRefs(f.tool))
                THEN Len(Deref(f.state).InputContexts) ELSE Len(GetContextToolRefs(f.tool)))
ContextFramesOf(p, F) == {q \in DOMAIN F : Len(q) = Len(p) + 1 /\ IsPrefix(p, q) /\ Last(q).kind = "ctx"}

\* C23: a getContext that is given a State with k completed InputContexts
\* invokes none of the first k context tools, and its result, which becomes
\* the InputContext of the owning tool, begins with those k stored results,
\* unchanged and in order.
C23_ReuseCompleted ==
    [][\A p \in DOMAIN frames' :
         LET g == frames'[p]
         IN  /\ InGetContext(g) =>
                    /\ g.i > Len(Completed(g))
                    /\ SubSeq(g.result, 1, Len(Completed(g))) = Completed(g)
                    /\ \A q \in ContextFramesOf(p, frames') : Last(q).id[1] > Len(Completed(g))
             /\ (HasInputContext(g) /\ p \in DOMAIN frames /\ ~HasInputContext(frames[p])) =>
                    /\ Len(g.inputContext) >= Len(Completed(frames[p]))
                    /\ SubSeq(g.inputContext, 1, Len(Completed(frames[p]))) = Completed(frames[p])]_vars

\* C23 witness: the owning tool's engine.Start has run, in the Chat after a
\* suspension with one completed InputContext, with that stored result first.
C23_Witness ==
    \E r \in Returns : \E e \in Starts :
        /\ r.path = Root /\ IsNil(r.err)
        /\ ~IsNil(Deref(r.state).InputContextContinuation)
        /\ Len(Deref(r.state).InputContexts) = 1
        /\ e.path = Root /\ e.chat = r.chat + 1
        /\ Len(e.ictx) = 2
        /\ e.ictx[1] = Deref(r.state).InputContexts[1]
        /\ \A c \in Returns : c.path = Child(Root, CtxSel(1)) => c.chat <= r.chat

\* The context-tool frames created by a step.
NewContextFrames ==
    {q \in DOMAIN frames' : /\ q \notin DOMAIN frames
                            /\ Len(q) > 0
                            /\ Last(q).kind = "ctx"
                            /\ Parent(q) \in DOMAIN frames}
\* The index at which the getContext of f was paused.
PausedIndex(f) == Len(Completed(f)) + 1

\* C24: a getContext resumes the stored InputContextContinuation against the
\* context tool at the paused index only; a context tool at any other index
\* is started through subCall with its own bound input and no State.
C24_ResumeOnlyPaused ==
    [][\A q \in NewContextFrames :
         LET f == frames[Parent(q)]
             c == frames'[q]
             j == Last(q).id[1]
         IN  IF ContextResumes(f) /\ j = PausedIndex(f)
             THEN /\ c.fn = "resume"
                  /\ ~IsNil(c.state)
                  /\ Deref(c.state) = WithResumeInput(Deref(Deref(f.state).InputContextContinuation),
                                                      Deref(f.state).ResumeInput)
             ELSE /\ c.fn = "call"
                  /\ IsNil(c.state)
                  /\ c.input = GetContextInput(c.tool, f.gcInput)]_vars

\* C24, the paused index alone: the context tool at the paused index is
\* resumed with the stored continuation and the pending input.
C24_PausedResumed ==
    [][\A q \in NewContextFrames :
         LET f == frames[Parent(q)]
             c == frames'[q]
         IN  ContextResumes(f) /\ Last(q).id[1] = PausedIndex(f) =>
                 /\ c.fn = "resume"
                 /\ ~IsNil(c.state)
                 /\ Deref(c.state) = WithResumeInput(Deref(Deref(f.state).InputContextContinuation),
                                                     Deref(f.state).ResumeInput)]_vars

(***************************************************************************)
(* A fanout and the errors of its sub-calls.                               *)
(***************************************************************************)
FailedFanout(f) == f.pc = "dispatch" /\ ~IsNil(f.derr)
NewSubFrames(p) ==
    {q \in DOMAIN frames' : q \notin DOMAIN frames /\ Len(q) = Len(p) + 1 /\ IsPrefix(p, q)}
IsChatFinishCaught(tool, err) == Deref(err).kind = "chatfinish" /\ ToolSet[tool].Chat
ContinuesAt(p, E) == {e \in E : e.op = "Continue" /\ e.path = p}

\* C25 (as written): every error a sub-call returns, other than a ChatFinish
\* that a Chat frame catches, is the error its caller returns.
C25_EveryError ==
    \A c \in Returns : \A r \in Returns :
        (/\ CalledBy(c, r) /\ c.chat = r.chat
         /\ Last(c.path).kind = "sub"
         /\ ~IsNil(c.err)
         /\ ~IsChatFinishCaught(r.tool, c.err)) => r.err = c.err

\* C25 (amended): once a sub-call of a fanout has returned an error, the
\* first such error is kept; the parent frame returns it, or the Result of a
\* ChatFinish when it is one and the parent is a Chat tool, and no
\* engine.Continue is invoked for the fanout.  In sequential mode no sibling
\* is started after the failing one; in parallel mode the context of the
\* remaining siblings is cancelled.
C25_FirstError ==
    [][\A p \in DOMAIN frames :
         FailedFanout(frames[p]) =>
             LET f == frames[p]
             IN  /\ cfg.sequential => NewSubFrames(p) = {} /\ f.running = {}
                 /\ ~cfg.sequential => f.cancelled
                 /\ ContinuesAt(p, events') = ContinuesAt(p, events)
                 /\ p \in DOMAIN frames' =>
                        LET g == frames'[p]
                        IN  \/ g.pc = "dispatch" /\ g.derr = f.derr
                            \/ /\ g.pc = "done"
                               /\ IF IsChatFinishCaught(f.tool, f.derr)
                                  THEN /\ IsNil(g.ret.err)
                                       /\ Deref(g.ret.state).Result = Some(Deref(f.derr).msg)
                                  ELSE g.ret.err = f.derr]_vars

\* C25 witness: a sequential fanout of T whose first sub-call failed has
\* returned that error, and no later sibling has run.
C25_Witness ==
    /\ \E r \in Returns : \E c \in Returns :
           /\ r.path = Root /\ r.tool = "T" /\ cfg.sequential
           /\ CalledBy(c, r) /\ c.chat = r.chat /\ Last(c.path) = SubSel(id1)
           /\ ~IsNil(c.err) /\ r.err = c.err
           /\ \A e \in events : e.chat = r.chat /\ e.path # Root => IsPrefix(c.path, e.path)

(***************************************************************************)
(* The progress pump of a frame.                                           *)
(***************************************************************************)
\* The frame is between two invocations, or has returned.
Outside(f) == f.pc \in {"start", "resume", "done", "panic"}

\* C26: the progress channel of a start or resume is closed at most once at
\* any time; while the invocation runs the channel is open and the consumer
\* alive; when an invocation that made a pump has returned, on any path, the
\* channel has been closed exactly once and the consumer has terminated.
C26_ClosedOnce ==
    \A p \in DOMAIN frames :
        LET f == frames[p]
            g == f.progress
        IN  /\ g.closed <= 1
            /\ Outside(f) => ~g.consumer /\ (g.made => g.closed = 1)
            /\ ~Outside(f) => g.made /\ g.closed = 0 /\ g.consumer

\* C26 witness: a resume has returned through the terminal path, where the
\* close function was called explicitly and again by the deferred call.
C26_Witness ==
    \E p \in DOMAIN frames :
        /\ frames[p].pc = "done" /\ frames[p].progress.calls = 2
        /\ frames[p].progress.closed = 1 /\ ~frames[p].progress.consumer
        /\ IsNil(frames[p].ret.err)

(***************************************************************************)
(* The binding mini-language, read off a returned call of the binder.      *)
(***************************************************************************)
BinderReturned == binder.pc = "returned"
BinderFields == Fields(binder.arg)
BinderProperties == IF IsNil(binder.arguments) THEN {} ELSE Deref(binder.arguments)

RECURSIVE ValuePositions(_, _)
\* The positions of the value tokens: `and` is skipped, `as` and the token
\* it consumes are skipped.
ValuePositions(fields, i) ==
    IF i > Len(fields) THEN {}
    ELSE IF fields[i] = And THEN ValuePositions(fields, i + 1)
    ELSE IF fields[i] = As THEN ValuePositions(fields, i + 2)
    ELSE {i} \cup ValuePositions(fields, i + 1)
BinderValues == ValuePositions(BinderFields, 1)

HasAlias(fields, i) == i < Len(fields) /\ fields[i + 1] = As
HasAliasName(fields, i) == HasAlias(fields, i) /\ i + 2 <= Len(fields)
\* The properties the alias of the value at i matches, case-insensitively.
AliasMatches(fields, i, properties) == {k \in properties : ToLower(k) = ToLower(fields[i + 2])}
\* The properties the value at i is to be bound to.
TargetsOf(fields, i, properties) ==
    IF HasAliasName(fields, i) THEN AliasMatches(fields, i, properties)
    ELSE IF ~HasAlias(fields, i) /\ Cardinality(properties) = 1 THEN properties
    ELSE {}
\* What a value token denotes: $name and ${name} the parent input's value
\* at name, any other token itself.
Denoted(field, input) ==
    IF field[1] # "$" THEN Some(field)
    ELSE LET name == IF Len(field) >= 3 /\ field[2] = "{" /\ field[Len(field)] = "}"
                     THEN SubSeq(field, 3, Len(field) - 1)
                     ELSE SubSeq(field, 2, Len(field))
         IN  IF input.object /\ name \in DOMAIN input.members THEN Some(input.members[name]) ELSE Nil
\* The last value bound to property k.
LastBound(fields, values, properties, k) ==
    LET at == {i \in values : k \in TargetsOf(fields, i, properties)}
    IN  CHOOSE i \in at : \A i2 \in at : i2 <= i
DistinctInLowerCase(properties) ==
    \A k1 \in properties : \A k2 \in properties : ToLower(k1) = ToLower(k2) => k1 = k2

\* The object of the mini-language, for a call that returned without error.
BoundAsDenoted ==
    \A k \in BinderProperties :
        IF \E i \in BinderValues : k \in TargetsOf(BinderFields, i, BinderProperties)
        THEN /\ k \in DOMAIN binder.result.members
             /\ binder.result.members[k] =
                    Denoted(BinderFields[LastBound(BinderFields, BinderValues, BinderProperties, k)], binder.input)
        ELSE k \notin DOMAIN binder.result.members

\* C27: for every Arg, parent input and target schema the binder returns the
\* object of the mini-language: a value without alias fails unless the
\* schema has exactly one property, a value with an alias fails unless a
\* property matches the alias case-insensitively, and otherwise every
\* property holds the last value bound to it, $name and ${name} being the
\* parent input's value at name.
C27_Binder ==
    BinderReturned =>
        /\ binder.result.kind # "panic"
        /\ \A i \in BinderValues :
               TargetsOf(BinderFields, i, BinderProperties) = {} => binder.result.kind = "error"
        /\ (binder.result.kind = "ok" /\ DistinctInLowerCase(BinderProperties)) => BoundAsDenoted

\* C27 where the code keeps to the mini-language: the target tool declares
\* Arguments, no two of its properties differ in case only, and every `as`
\* after a value is followed by a name.
C27_DeclaredArguments ==
    (/\ BinderReturned
     /\ ~IsNil(binder.arguments)
     /\ DistinctInLowerCase(BinderProperties)
     /\ \A i \in BinderValues : HasAlias(BinderFields, i) => HasAliasName(BinderFields, i)) =>
        /\ binder.result.kind # "panic"
        /\ (\E i \in BinderValues : TargetsOf(BinderFields, i, BinderProperties) = {})
               <=> binder.result.kind = "error"
        /\ binder.result.kind = "ok" => BoundAsDenoted

(***************************************************************************)
(* credMutex.                                                              *)
(***************************************************************************)
Locked == ~IsNil(creds.mutex)
\* A frame is blocked in r.credMutex.Lock() while a caller of its own, which
\* waits for it, holds the mutex.
WaitsForCaller ==
    \E p \in DOMAIN frames :
        /\ frames[p].pc = "hc"
        /\ Locked
        /\ Len(Deref(creds.mutex)) < Len(p)
        /\ IsPrefix(Deref(creds.mutex), p)

\* C28: credential acquisition never deadlocks: whenever credMutex is held
\* it is released later, also when the credential tool that is run declares
\* credentials of its own.
C28_Released == Locked ~> (~Locked \/ chat.pc = "crashed")

\* C28 for the tools whose credential tools declare no credentials.
C28_ReleasedFlat == (Locked /\ cfg.entry # "TD") ~> (~Locked \/ chat.pc = "crashed")

\* The returns of context tools and sub-calls that the caller takes for
\* completed: no error and no Continuation (lines 354 and 576).
TakenForCompleted ==
    {c \in Returns : /\ c.path # Root
                     /\ Last(c.path).kind \in {"ctx", "sub"}
                     /\ IsNil(c.err)
                     /\ IsNil(Deref(c.state).Continuation)}

\* C29: every child State the driver takes for completed has a Result, so
\* that no nil Result is dereferenced; a child that suspended in its own
\* context tools (StartContinuation set, no Continuation, no Result) is
\* never among them.
C29_CompletedHasResult ==
    /\ chat.pc # "crashed"
    /\ \A c \in TakenForCompleted :
           /\ ~IsNil(Deref(c.state).Result)
           /\ ~Deref(c.state).StartContinuation

\* The answers of the authorizer for the frame at the path of e, before e.
AuthsBefore(e) == {a \in Auths : a.path = e.path /\ a.seq < e.seq}
LatestAuthBefore(e) == CHOOSE a \in AuthsBefore(e) : \A a2 \in AuthsBefore(e) : a2.seq <= a.seq

\* C30: the engine is invoked, by Start or by Continue, for the frame of a
\* command tool that is not on the safe-list only when the authorizer's
\* latest answer for that frame was to accept; after a rejection the engine
\* is not invoked for it, in that Chat or in a later one.
C30_AuthorizedOnly ==
    \A e \in Starts \cup Continues :
        NeedsAuthorization(e.tool) =>
            /\ AuthsBefore(e) # {}
            /\ LatestAuthBefore(e).accept

\* C30 for engine.Start alone: a command tool is started only after the
\* authorizer accepted that very invocation.
C30_StartAuthorized ==
    \A e \in Starts :
        NeedsAuthorization(e.tool) =>
            \E a \in Auths : SameFrame(a, e) /\ a.seq < e.seq /\ a.accept

(***************************************************************************)
(* A context tool that suspends while resume holds a user input.           *)
(***************************************************************************)
\* The entry frame returned because a context tool suspended in resume.
SuspendedInResume(r) ==
    /\ r.path = Root /\ IsNil(r.err)
    /\ ~IsNil(Deref(r.state).InputContextContinuation)
    /\ ~Deref(r.state).StartContinuation
\* The first such return of a run of suspensions, with the input of its
\* Chat pending for the owning tool: the Chat before it ended with no context
\* tool suspended, and the input is kept in the State.
FirstSuspendedInResume(r) ==
    /\ SuspendedInResume(r)
    /\ Deref(r.state).InputContextContinuationResumeInput = Some(UserInput(r.chat - 1))
    /\ \E r0 \in Returns : /\ r0.path = Root /\ r0.chat = r.chat - 1 /\ IsNil(r0.err)
                           /\ IsNil(Deref(r0.state).InputContextContinuation)
\* From r up to the Chat of e the context tool suspended in every Chat.
SuspendedUntil(r, e) ==
    /\ e.path = Root /\ e.chat > r.chat
    /\ \A k \in r.chat..(e.chat - 1) : \E r2 \in Returns : r2.chat = k /\ SuspendedInResume(r2)
    /\ \A r2 \in Returns : r2.path = Root /\ r.chat <= r2.chat /\ r2.chat < e.chat => SuspendedInResume(r2)

\* C31: when a context tool suspends in resume while the input u1 of that
\* Chat is pending for the owning tool, the engine.Continue of the owning
\* tool that follows receives u1 as its user CallResult, however often the
\* context tool suspends in between and whatever the later Chats supply.
C31_PendingInputKept ==
    \A r \in Returns : \A e \in Continues :
        FirstSuspendedInResume(r) /\ SuspendedUntil(r, e) =>
            UserInputs(e.results) = {UserInput(r.chat - 1)}

\* C31 for a context tool that suspends once: the Chat after the suspension
\* hands the pending input to the owning tool.
C31_SuspendedOnce ==
    \A r \in Returns : \A e \in Continues :
        FirstSuspendedInResume(r) /\ SuspendedUntil(r, e) /\ e.chat = r.chat + 1 =>
            UserInputs(e.results) = {UserInput(r.chat - 1)}


====
